---- MODULE Spec2Model ----
(***************************************************************************)
(* Model of the xg2g audio remuxing pipeline (src/transcoder/src):         *)
(* TS packet parser and demultiplexer (demux.rs), AAC encoder buffering    *)
(* and ADTS framing (encoder.rs), TS multiplexer (muxer.rs) and the        *)
(* coordinator AudioRemuxer (audio_remux.rs).                             *)
(*                                                                         *)
(* Byte vectors that the code bounds only by MAX_PES_SIZE (PesBuffer.data) *)
(* and PCM sample vectors are held run-length encoded: a sequence of       *)
(* <<value, count>> runs in canonical form (no empty run, no two adjacent  *)
(* runs of one value), so equality of encodings is equality of vectors.    *)
(* TS packets, payloads, PES headers and sections are plain sequences of   *)
(* bytes, indexed from 0 through At as in the source.                      *)
(***************************************************************************)
EXTENDS Integers, Sequences, FiniteSets, TLC

\* ------------------------------------------------------------- constants

TS_SYNC_BYTE == 71
TS_PACKET_SIZE == 188
PAT_PID == 0
MAX_PES_SIZE == 1048576
FALLBACK_THRESHOLD == 1000
AAC_FRAME_SIZE == 1024
PSI_INTERVAL == 40

\* Option::None of audio_pid / pmt_pid
NONE == -1

\* --------------------------------------------------------- byte helpers

Pow2(k) == 2 ^ k
Shr(x, k) == x \div Pow2(k)
Shl8(x, k) == (x * Pow2(k)) % 256
Low(x, k) == x % Pow2(k)
Bit(x, k) == (x \div Pow2(k)) % 2
RECURSIVE BitOr(_, _)
BitOr(a, b) ==
    IF a = 0 THEN b
    ELSE IF b = 0 THEN a
    ELSE (IF a % 2 = 1 \/ b % 2 = 1 THEN 1 ELSE 0) + 2 * BitOr(a \div 2, b \div 2)
RECURSIVE BitAnd(_, _)
BitAnd(a, b) ==
    IF a = 0 \/ b = 0 THEN 0
    ELSE (IF a % 2 = 1 /\ b % 2 = 1 THEN 1 ELSE 0) + 2 * BitAnd(a \div 2, b \div 2)
U8(x) == x % 256
At(s, i) == s[i + 1]
SliceFrom(s, from) == SubSeq(s, from + 1, Len(s))
Slice(s, from, to) == SubSeq(s, from + 1, to)
Fill(n, b) == [i \in 1..n |-> b]

\* let r = v; body: the value of [r \in {v} |-> body], a local binding whose
\* value v is computed once
Bind(f) == f[CHOOSE r \in DOMAIN f : TRUE]

\* ------------------------------------------------- run-length vectors

RECURSIVE RleLen(_)
RleLen(r) ==
    IF r = <<>> THEN 0 ELSE r[1][2] + RleLen(Tail(r))

RlePush(r, v, n) ==
    IF n = 0 THEN r
    ELSE IF r # <<>> /\ r[Len(r)][1] = v
         THEN [r EXCEPT ![Len(r)] = <<v, @[2] + n>>]
         ELSE Append(r, <<v, n>>)

RECURSIVE RleConcat(_, _)
RleConcat(r, q) ==
    IF q = <<>> THEN r ELSE RleConcat(RlePush(r, q[1][1], q[1][2]), Tail(q))

\* the runs of the plain slice s[from..to]
RECURSIVE RleOfSlice(_, _, _)
RleOfSlice(s, from, to) ==
    IF from > to THEN <<>>
    ELSE IF from = to THEN << <<s[from], 1>> >>
    ELSE LET mid == (from + to) \div 2
         IN  RleConcat(RleOfSlice(s, from, mid), RleOfSlice(s, mid + 1, to))

\* Vec::extend_from_slice of a plain byte slice
RleExtend(r, s) == RleConcat(r, RleOfSlice(s, 1, Len(s)))

\* the first n elements, and the rest (Vec::drain(..n))
RECURSIVE RleTake(_, _)
RleTake(r, n) ==
    IF n = 0 \/ r = <<>> THEN <<>>
    ELSE IF r[1][2] <= n THEN <<r[1]>> \o RleTake(Tail(r), n - r[1][2])
         ELSE << <<r[1][1], n>> >>

RECURSIVE RleDrop(_, _)
RleDrop(r, n) ==
    IF n = 0 \/ r = <<>> THEN r
    ELSE IF r[1][2] <= n THEN RleDrop(Tail(r), n - r[1][2])
         ELSE << <<r[1][1], r[1][2] - n>> >> \o Tail(r)

\* how many elements of value v
RECURSIVE RleCount(_, _)
RleCount(r, v) ==
    IF r = <<>> THEN 0
    ELSE (IF r[1][1] = v THEN r[1][2] ELSE 0) + RleCount(Tail(r), v)

ToRle(s) == RleExtend(<<>>, s)

\* the element at index i (from 0)
RECURSIVE RleAt(_, _)
RleAt(r, i) == IF i < r[1][2] THEN r[1][1] ELSE RleAt(Tail(r), i - r[1][2])

\* ------------------------------------------------------ TS Packet Parser

\* demux.rs TsPacket::parse.  kind is "ok", "err" (bail!) or "panic" (a slice
\* index out of range); a slice data[offset..] panics iff offset > len.
ParseFields(data) ==
    LET has_adaptation == Bit(At(data, 3), 5) = 1
        has_payload == Bit(At(data, 3), 4) = 1
        payload_offset == IF has_adaptation THEN 4 + 1 + At(data, 4) ELSE 4
    IN  [ kind |-> "ok",
          pid |-> Low(At(data, 1), 5) * 256 + At(data, 2),
          payload_start |-> Bit(At(data, 1), 6) = 1,
          transport_error |-> Bit(At(data, 1), 7) = 1,
          priority |-> Bit(At(data, 1), 5) = 1,
          scrambling |-> Shr(At(data, 3), 6),
          has_adaptation |-> has_adaptation,
          has_payload |-> has_payload,
          continuity |-> Low(At(data, 3), 4),
          payload_offset |-> payload_offset ]

ParseErr(why) == [kind |-> "err", why |-> why]
ParsePanic == [kind |-> "panic"]

TsPacketParseUnguarded(data) ==
    IF Len(data) # TS_PACKET_SIZE THEN ParseErr("size")
    ELSE IF At(data, 0) # TS_SYNC_BYTE THEN ParseErr("sync")
    ELSE LET f == ParseFields(data)
         IN  IF f.has_payload
             THEN IF f.payload_offset > Len(data) THEN ParsePanic
                  ELSE f @@ [payload |-> SliceFrom(data, f.payload_offset)]
             ELSE f @@ [payload |-> <<>>]

TsPacket_parse(data) ==
    IF Len(data) # TS_PACKET_SIZE THEN ParseErr("size")
    ELSE IF At(data, 0) # TS_SYNC_BYTE THEN ParseErr("sync")
    ELSE LET f == ParseFields(data)
         IN  IF f.has_payload /\ f.payload_offset < Len(data)
             THEN f @@ [payload |-> SliceFrom(data, f.payload_offset)]
             ELSE f @@ [payload |-> <<>>]

\* no packet taken for scrambled
is_scrambled_never(packet) == FALSE

is_scrambled(packet) == packet.scrambling # 0

\* ------------------------------------------------- PES Reassembly Buffer

None == [kind |-> "none"]
Some(pes) == [kind |-> "some", pes |-> pes]
Err(why) == [kind |-> "err", why |-> why]
Panic == [kind |-> "panic"]

PesBuffer_new ==
    [data |-> <<>>, expected_continuity |-> 0, started |-> FALSE, pes_length |-> 0]

\* reset that leaves the accumulated bytes in place
PesBuffer_reset_keeps_data(b) ==
    [b EXCEPT !.started = FALSE, !.pes_length = 0]

PesBuffer_reset(b) ==
    [b EXCEPT !.data = <<>>, !.started = FALSE, !.pes_length = 0]

\* append_payload without the size cap
append_payload_uncapped(b, packet) ==
    IF b.started /\ packet.payload # <<>>
    THEN LET data == RleExtend(b.data, packet.payload)
         IN  IF RleLen(data) >= b.pes_length
             THEN [buf |-> PesBuffer_reset(b), ret |-> Some(data)]
             ELSE [buf |-> [b EXCEPT !.data = data], ret |-> None]
    ELSE [buf |-> b, ret |-> None]

\* demux.rs 232-255: append the payload, cap at MAX_PES_SIZE, yield when complete
append_payload(b, packet) ==
    IF b.started /\ packet.payload # <<>>
    THEN LET data == RleExtend(b.data, packet.payload)
             n == RleLen(data)
         IN  IF n > MAX_PES_SIZE THEN [buf |-> PesBuffer_reset(b), ret |-> None]
             ELSE IF n >= b.pes_length
                  THEN [buf |-> PesBuffer_reset(b), ret |-> Some(data)]
                  ELSE [buf |-> [b EXCEPT !.data = data], ret |-> None]
    ELSE [buf |-> b, ret |-> None]

\* demux.rs 199-230: PUSI starts a new PES
start_pes(b, packet) ==
    LET b2 == PesBuffer_reset(b)
        payload == packet.payload
    IN  IF Len(payload) < 6 THEN [buf |-> b2, ret |-> Err("PES header too short")]
        ELSE IF At(payload, 0) # 0 \/ At(payload, 1) # 0 \/ At(payload, 2) # 1
             THEN [buf |-> b2, ret |-> Err("Invalid PES start code")]
             ELSE LET pes_length == At(payload, 4) * 256 + At(payload, 5)
                  IN  append_payload(
                          [b2 EXCEPT !.pes_length = IF pes_length = 0 THEN MAX_PES_SIZE
                                                    ELSE pes_length + 6,
                                     !.started = TRUE],
                          packet)

add_payload(b, packet) ==
    IF b.started /\ packet.continuity # b.expected_continuity
    THEN [buf |-> PesBuffer_reset(b), ret |-> None]
    ELSE LET b1 == [b EXCEPT !.expected_continuity = (packet.continuity + 1) % 16]
         IN  IF packet.payload_start THEN start_pes(b1, packet)
             ELSE append_payload(b1, packet)

\* ------------------------------------------------------- Demultiplexer

from_stream_type(stream_type) ==
    IF stream_type \in {3, 4} THEN "Mp2"
    ELSE IF stream_type = 129 THEN "Ac3"
    ELSE IF stream_type = 15 THEN "Aac"
    ELSE "Unknown"

TsDemuxer_new ==
    [ audio_pid |-> NONE,
      audio_codec |-> "Unknown",
      pes_buffers |-> <<>>,
      pmt_pid |-> NONE,
      fallback_active |-> FALSE,
      packets_processed |-> 0,
      audio_packets |-> 0 ]

\* the program loop of parse_pat: the PID adopted, or NONE
RECURSIVE pat_scan(_, _, _)
pat_scan(data, section_length, offset) ==
    IF offset + 4 <= section_length + 3
    THEN LET program_number == At(data, offset) * 256 + At(data, offset + 1)
             pid == Low(At(data, offset + 2), 5) * 256 + At(data, offset + 3)
         IN  IF program_number # 0 THEN pid
             ELSE pat_scan(data, section_length, offset + 4)
    ELSE NONE

parse_pat(d, payload) ==
    IF payload = <<>> THEN [dem |-> d, panic |-> FALSE]
    ELSE LET pointer == At(payload, 0)
         IN  IF 1 + pointer > Len(payload) THEN [dem |-> d, panic |-> TRUE]
             ELSE LET data == SliceFrom(payload, 1 + pointer)
                      section_length == Low(At(data, 1), 4) * 256 + At(data, 2)
                  IN  IF Len(data) < 8 THEN [dem |-> d, panic |-> FALSE]
                      ELSE IF At(data, 0) # 0 THEN [dem |-> d, panic |-> FALSE]
                      ELSE IF Len(data) < 8 + section_length
                           THEN [dem |-> d, panic |-> FALSE]
                      ELSE LET pid == pat_scan(data, section_length, 8)
                           IN  [dem |-> IF pid # NONE THEN [d EXCEPT !.pmt_pid = pid]
                                        ELSE d,
                                panic |-> FALSE]

\* the descriptor loop of parse_pmt: TRUE iff an AC-3 descriptor tag is found
RECURSIVE desc_scan(_, _, _)
desc_scan(data, desc_offset, desc_end) ==
    IF desc_offset + 2 <= desc_end
    THEN IF At(data, desc_offset) \in {106, 122, 129} THEN TRUE
         ELSE desc_scan(data, desc_offset + 2 + At(data, desc_offset + 1), desc_end)
    ELSE FALSE

\* the stream loop of parse_pmt: [kind |-> "adopt", pid, codec], "none" or "panic"
RECURSIVE pmt_scan(_, _, _)
pmt_scan(data, section_length, offset) ==
    IF offset + 5 <= section_length + 3
    THEN IF offset + 4 >= Len(data) THEN [kind |-> "panic"]
         ELSE LET stream_type == At(data, offset)
                  pid == Low(At(data, offset + 1), 5) * 256 + At(data, offset + 2)
                  es_info_length == Low(At(data, offset + 3), 4) * 256
                                    + At(data, offset + 4)
                  desc_start == offset + 5
                  desc_end == desc_start + es_info_length
                  codec == IF stream_type = 6 /\ es_info_length > 0
                              /\ desc_end <= Len(data)
                              /\ desc_scan(data, desc_start, desc_end)
                           THEN "Ac3"
                           ELSE from_stream_type(stream_type)
              IN  IF codec # "Unknown"
                  THEN [kind |-> "adopt", pid |-> pid, codec |-> codec]
                  ELSE pmt_scan(data, section_length, offset + 5 + es_info_length)
    ELSE [kind |-> "none"]

parse_pmt(d, payload) ==
    IF payload = <<>> THEN [dem |-> d, panic |-> FALSE]
    ELSE LET pointer == At(payload, 0)
         IN  IF 1 + pointer > Len(payload) THEN [dem |-> d, panic |-> TRUE]
             ELSE LET data == SliceFrom(payload, 1 + pointer)
                      section_length == Low(At(data, 1), 4) * 256 + At(data, 2)
                      program_info_length == Low(At(data, 10), 4) * 256 + At(data, 11)
                  IN  IF Len(data) < 12 THEN [dem |-> d, panic |-> FALSE]
                      ELSE IF At(data, 0) # 2 THEN [dem |-> d, panic |-> FALSE]
                      ELSE LET r == pmt_scan(data, section_length,
                                             12 + program_info_length)
                           IN  IF r.kind = "panic" THEN [dem |-> d, panic |-> TRUE]
                               ELSE IF r.kind = "adopt"
                               THEN [dem |-> [d EXCEPT !.audio_pid = r.pid,
                                                       !.audio_codec = r.codec],
                                     panic |-> FALSE]
                               ELSE [dem |-> d, panic |-> FALSE]

COMMON_AUDIO_PIDS == {68, 128, 256, 257, 258}

\* HashMap::entry(pid).or_insert_with(PesBuffer::new)
buffer_of(d, pid) ==
    IF pid \in DOMAIN d.pes_buffers THEN d.pes_buffers[pid] ELSE PesBuffer_new

\* demux.rs 349-352 / 376-377: add the payload to the PID's buffer
feed_buffer(d, packet) ==
    Bind([r \in {add_payload(buffer_of(d, packet.pid), packet)} |->
        [dem |-> [d EXCEPT !.pes_buffers =
                     [p \in DOMAIN d.pes_buffers \cup {packet.pid} |->
                         IF p = packet.pid THEN r.buf ELSE d.pes_buffers[p]]],
         ret |-> r.ret]])

\* handle_audio with the fallback activated without waiting for the threshold
handle_audio_eager(d0, packet) ==
    LET d == IF d0.audio_pid = NONE /\ ~d0.fallback_active
             THEN [d0 EXCEPT !.fallback_active = TRUE]
             ELSE d0
    IN  IF d.audio_pid # NONE
        THEN IF packet.pid = d.audio_pid
             THEN feed_buffer([d EXCEPT !.audio_packets = @ + 1], packet)
             ELSE [dem |-> d, ret |-> None]
        ELSE IF d.fallback_active
                /\ packet.pid \in COMMON_AUDIO_PIDS
                /\ packet.payload_start /\ Len(packet.payload) >= 4
                /\ At(packet.payload, 0) = 0 /\ At(packet.payload, 1) = 0
                /\ At(packet.payload, 2) = 1
                /\ (At(packet.payload, 3) \in 192..223 \/ At(packet.payload, 3) = 189)
             THEN feed_buffer([d EXCEPT !.audio_pid = packet.pid,
                                        !.audio_codec = "Unknown",
                                        !.audio_packets = @ + 1], packet)
             ELSE [dem |-> d, ret |-> None]

\* the fallback probing every packet past the threshold, a known audio PID or not
handle_audio_replacing(d0, packet) ==
    LET d == IF d0.packets_processed >= FALLBACK_THRESHOLD
             THEN [d0 EXCEPT !.fallback_active = TRUE]
             ELSE d0
    IN  IF d.audio_pid # NONE /\ packet.pid = d.audio_pid
        THEN feed_buffer([d EXCEPT !.audio_packets = @ + 1], packet)
        ELSE IF d.fallback_active
                /\ packet.pid \in COMMON_AUDIO_PIDS
                /\ packet.payload_start /\ Len(packet.payload) >= 4
                /\ At(packet.payload, 0) = 0 /\ At(packet.payload, 1) = 0
                /\ At(packet.payload, 2) = 1
                /\ (At(packet.payload, 3) \in 192..223 \/ At(packet.payload, 3) = 189)
             THEN feed_buffer([d EXCEPT !.audio_pid = packet.pid,
                                        !.audio_codec = "Unknown",
                                        !.audio_packets = @ + 1], packet)
             ELSE [dem |-> d, ret |-> None]

\* demux.rs 332-384: fallback activation and the audio packet handling
handle_audio(d0, packet) ==
    LET d == IF d0.audio_pid = NONE /\ ~d0.fallback_active
                /\ d0.packets_processed >= FALLBACK_THRESHOLD
             THEN [d0 EXCEPT !.fallback_active = TRUE]
             ELSE d0
    IN  IF d.audio_pid # NONE
        THEN IF packet.pid = d.audio_pid
             THEN feed_buffer([d EXCEPT !.audio_packets = @ + 1], packet)
             ELSE [dem |-> d, ret |-> None]
        ELSE IF d.fallback_active
                /\ packet.pid \in COMMON_AUDIO_PIDS
                /\ packet.payload_start /\ Len(packet.payload) >= 4
                /\ At(packet.payload, 0) = 0 /\ At(packet.payload, 1) = 0
                /\ At(packet.payload, 2) = 1
                /\ (At(packet.payload, 3) \in 192..223 \/ At(packet.payload, 3) = 189)
             THEN feed_buffer([d EXCEPT !.audio_pid = packet.pid,
                                        !.audio_codec = "Unknown",
                                        !.audio_packets = @ + 1], packet)
             ELSE [dem |-> d, ret |-> None]

\* demux.rs 319-330: the PAT and PMT handling of a parsed, clear packet
process_psi(d1, packet) ==
    Bind([r2 \in {IF packet.pid = PAT_PID /\ packet.payload_start
         THEN parse_pat(d1, packet.payload)
         ELSE [dem |-> d1, panic |-> FALSE]} |->
        IF ~r2.panic /\ r2.dem.pmt_pid # NONE
           /\ packet.pid = r2.dem.pmt_pid /\ packet.payload_start
        THEN parse_pmt(r2.dem, packet.payload)
        ELSE r2])

process_packet(d, data) ==
    Bind([packet \in {TsPacket_parse(data)} |->
        IF packet.kind = "err" THEN [dem |-> d, ret |-> Err(packet.why)]
        ELSE IF packet.kind = "panic" THEN [dem |-> d, ret |-> Panic]
        ELSE LET d1 == [d EXCEPT !.packets_processed = @ + 1]
             IN  IF is_scrambled(packet) THEN [dem |-> d1, ret |-> None]
                 ELSE Bind([r3 \in {process_psi(d1, packet)} |->
                          IF r3.panic THEN [dem |-> r3.dem, ret |-> Panic]
                          ELSE handle_audio(r3.dem, packet)])])

\* ------------------------------------------- AAC Encoder and ADTS Framer

Ok(v) == [kind |-> "ok", val |-> v]

\* encoder.rs AacProfile::adts_profile
adts_profile(profile) ==
    IF profile = "AacLc" THEN 1 ELSE IF profile = "HeAac" THEN 4 ELSE 28

\* encoder.rs AacEncoderConfig::validate: TRUE iff Ok
validate(config) ==
    /\ ~(config.sample_rate < 8000 \/ config.sample_rate > 96000)
    /\ ~(config.channels < 1 \/ config.channels > 8)
    /\ ~(config.bitrate < 32000 \/ config.bitrate > 512000)

\* encoder.rs AdtsHeader::sample_rate_to_index: the index, or NONE for the bail!
sample_rate_to_index(sample_rate) ==
    CASE sample_rate = 96000 -> 0
      [] sample_rate = 88200 -> 1
      [] sample_rate = 64000 -> 2
      [] sample_rate = 48000 -> 3
      [] sample_rate = 44100 -> 4
      [] sample_rate = 32000 -> 5
      [] sample_rate = 24000 -> 6
      [] sample_rate = 22050 -> 7
      [] sample_rate = 16000 -> 8
      [] sample_rate = 12000 -> 9
      [] sample_rate = 11025 -> 10
      [] sample_rate = 8000 -> 11
      [] sample_rate = 7350 -> 12
      [] OTHER -> NONE

\* generate with the payload length alone written to the frame_length field
AdtsHeader_generate_payload_only(profile, sample_rate, channels, frame_length) ==
    LET sample_rate_index == sample_rate_to_index(sample_rate)
        channel_config == U8(channels)
        total_length == frame_length
    IN  IF sample_rate_index = NONE THEN Err("Unsupported sample rate for ADTS")
        ELSE IF channel_config > 8 THEN Err("Invalid channel count for ADTS")
        ELSE IF total_length + 7 > 8191 THEN Err("Frame too large for ADTS")
        ELSE Ok(<< 255,
                   241,
                   BitOr(BitOr(U8((adts_profile(profile) - 1) * 64),
                               U8(sample_rate_index * 4)),
                         Shr(channel_config, 2)),
                   BitOr(U8(BitAnd(channel_config, 3) * 64), U8(Shr(total_length, 11))),
                   BitAnd(Shr(total_length, 3), 255),
                   U8(BitOr(BitAnd(total_length, 7) * 32, 31)),
                   252 >>)

\* encoder.rs AdtsHeader::generate
AdtsHeader_generate(profile, sample_rate, channels, frame_length) ==
    LET sample_rate_index == sample_rate_to_index(sample_rate)
        channel_config == U8(channels)
        total_length == frame_length + 7
    IN  IF sample_rate_index = NONE THEN Err("Unsupported sample rate for ADTS")
        ELSE IF channel_config > 8 THEN Err("Invalid channel count for ADTS")
        ELSE IF total_length > 8191 THEN Err("Frame too large for ADTS")
        ELSE Ok(<< 255,
                   241,
                   BitOr(BitOr(U8((adts_profile(profile) - 1) * 64),
                               U8(sample_rate_index * 4)),
                         Shr(channel_config, 2)),
                   BitOr(U8(BitAnd(channel_config, 3) * 64), U8(Shr(total_length, 11))),
                   BitAnd(Shr(total_length, 3), 255),
                   U8(BitOr(BitAnd(total_length, 7) * 32, 31)),
                   252 >>)

\* encoder.rs FfmpegAacEncoder::new, for a config that validate accepts; sent
\* stands for the external codec: the frame it was sent last
FfmpegAacEncoder_new(config) ==
    [config |-> config, sample_buffer |-> <<>>, frames_encoded |-> 0, sent |-> <<>>]

frame_size == AAC_FRAME_SIZE

\* encoder.rs encode_frame + add_adts_header: the external AAC codec returns
\* one access unit of aac_len bytes per frame sent; its ADTS header is put
\* in front.  The frame's samples are consumed whatever the outcome.
encode_frame(e0, pcm, aac_len) ==
    LET e == [e0 EXCEPT !.sent = pcm]
        adts == AdtsHeader_generate(e.config.profile, e.config.sample_rate,
                                    e.config.channels, aac_len)
    IN  IF adts.kind = "err" THEN [enc |-> e, ret |-> adts]
        ELSE [enc |-> [e EXCEPT !.frames_encoded = @ + 1],
              ret |-> Ok(adts.val \o Fill(aac_len, U8(170 + e.frames_encoded)))]

\* the while loop of encode: one frame per samples_per_frame buffered samples
RECURSIVE encode_loop(_, _, _)
encode_loop(e, output, aac_len) ==
    LET samples_per_frame == frame_size * e.config.channels
    IN  IF RleLen(e.sample_buffer) >= samples_per_frame
        THEN Bind([r \in {encode_frame([e EXCEPT !.sample_buffer =
                                             RleDrop(@, samples_per_frame)],
                                        RleTake(e.sample_buffer, samples_per_frame),
                                        aac_len)} |-> IF r.ret.kind = "err" THEN r
                             ELSE encode_loop(r.enc, output \o r.ret.val, aac_len)])
        ELSE [enc |-> e, ret |-> Ok(output)]

encode(e, pcm, aac_len) ==
    encode_loop([e EXCEPT !.sample_buffer = RleConcat(@, pcm)], <<>>, aac_len)

\* flush with the rest of the buffer sent as it is, without the zeros
encoder_flush_unpadded(e, aac_len) ==
    IF e.sample_buffer # <<>>
    THEN encode_frame([e EXCEPT !.sample_buffer = <<>>], e.sample_buffer, aac_len)
    ELSE [enc |-> e, ret |-> Ok(<<>>)]

\* encoder.rs FfmpegAacEncoder::flush: the rest of the buffer, resized with
\* zeros to one frame, is encoded
encoder_flush(e, aac_len) ==
    IF e.sample_buffer # <<>>
    THEN LET samples_per_frame == frame_size * e.config.channels
             remaining == samples_per_frame - RleLen(e.sample_buffer)
         IN  encode_frame([e EXCEPT !.sample_buffer = <<>>],
                          RlePush(e.sample_buffer, 0, remaining), aac_len)
    ELSE [enc |-> e, ret |-> Ok(<<>>)]

\* ------------------------------------------------------- TS Multiplexer

\* muxer.rs TsMuxerConfig::default
TsMuxerConfig_default ==
    [ audio_pid |-> 257, video_pid |-> 256, pcr_pid |-> 256, pmt_pid |-> 4096,
      transport_stream_id |-> 1, program_number |-> 1 ]

TsMuxer_new(config) ==
    [ config |-> config,
      audio_continuity |-> 0,
      video_continuity |-> 0,
      pat_continuity |-> 0,
      pmt_continuity |-> 0,
      packets_muxed |-> 0,
      psi_interval |-> PSI_INTERVAL ]

\* a 188-byte packet: the bytes written, then the 0xFF the array was filled with
\* a packet filled up with zero bytes
Padded_zero(bytes) == bytes \o Fill(TS_PACKET_SIZE - Len(bytes), 0)

Padded(bytes) == bytes \o Fill(TS_PACKET_SIZE - Len(bytes), 255)

\* write_timestamp with the shift of the fourth byte off by one
write_timestamp_shifted(prefix, ts) ==
    << U8(BitOr(BitOr(U8(prefix * 16), BitAnd(U8(Shr(ts, 29)), 14)), 1)),
       BitAnd(Shr(ts, 22), 255),
       U8(BitOr(BitAnd(Shr(ts, 14), 254), 1)),
       BitAnd(Shr(ts, 8), 255),
       U8(BitOr(BitAnd(ts * 2, 254), 1)) >>

\* write_timestamp without the marker bit of the third byte
write_timestamp_wide_unmarked(prefix, hi, lo) ==
    << U8(BitOr(BitOr(U8(prefix * 16), BitAnd(U8((hi % 128) * 2 + Shr(lo, 29)), 14)), 1)),
       BitAnd(Shr(lo, 22), 255),
       U8(BitAnd(Shr(lo, 14), 254)),
       BitAnd(Shr(lo, 7), 255),
       U8(BitOr(BitAnd(lo * 2, 254), 1)) >>

\* muxer.rs write_timestamp on the u64 ts = hi * 2^30 + lo with lo < 2^30: the
\* integers of the checker end below 2^31, so a timestamp of 33 bits is held as
\* its bits above bit 29 and its low 30 bits
write_timestamp_wide(prefix, hi, lo) ==
    << U8(BitOr(BitOr(U8(prefix * 16), BitAnd(U8((hi % 128) * 2 + Shr(lo, 29)), 14)), 1)),
       BitAnd(Shr(lo, 22), 255),
       U8(BitOr(BitAnd(Shr(lo, 14), 254), 1)),
       BitAnd(Shr(lo, 7), 255),
       U8(BitOr(BitAnd(lo * 2, 254), 1)) >>

write_timestamp(prefix, ts) == write_timestamp_wide(prefix, Shr(ts, 30), Low(ts, 30))

create_pes_packet(data, pts, dts) ==
    LET header_len == 13
        pes_length == (Len(data) + header_len - 6) % 65536
    IN  <<0, 0, 1, 192, U8(Shr(pes_length, 8)), BitAnd(pes_length, 255), 132, 192, 10>>
        \o write_timestamp(3, pts) \o write_timestamp(1, dts) \o data

\* the while loop of create_ts_packets
RECURSIVE ts_packets_loop(_, _, _, _, _, _)
ts_packets_loop(m, pes_data, pid, is_audio, offset, packets) ==
    IF offset < Len(pes_data)
    THEN LET first_packet == offset = 0
             continuity == IF is_audio THEN m.audio_continuity ELSE m.video_continuity
             m1 == IF is_audio
                   THEN [m EXCEPT !.audio_continuity = BitAnd(@ + 1, 15)]
                   ELSE [m EXCEPT !.video_continuity = BitAnd(@ + 1, 15)]
             available == TS_PACKET_SIZE - 4
             remaining == Len(pes_data) - offset
             to_copy == IF available < remaining THEN available ELSE remaining
             packet == Padded(<< 71,
                                 BitOr(IF first_packet THEN 64 ELSE 0,
                                       BitAnd(U8(Shr(pid, 8)), 31)),
                                 BitAnd(pid, 255),
                                 BitOr(16, continuity) >>
                              \o Slice(pes_data, offset, offset + to_copy))
         IN  ts_packets_loop(m1, pes_data, pid, is_audio, offset + to_copy,
                             Append(packets, packet))
    ELSE [mux |-> m, packets |-> packets]

\* the counters of the two elementary streams swapped
create_ts_packets_swapped(m, pes_data, pid, is_audio) ==
    ts_packets_loop(m, pes_data, pid, ~is_audio, 0, <<>>)

create_ts_packets(m, pes_data, pid, is_audio) ==
    ts_packets_loop(m, pes_data, pid, is_audio, 0, <<>>)

generate_pat(m) ==
    LET c == m.config
        section_length == 13
    IN  [ mux |-> [m EXCEPT !.pat_continuity = BitAnd(@ + 1, 15)],
          packet |-> Padded(<< 71, 64, 0, BitOr(16, m.pat_continuity),
                               0,
                               0,
                               BitOr(176, U8(Shr(section_length, 8))),
                               BitAnd(section_length, 255),
                               U8(Shr(c.transport_stream_id, 8)),
                               BitAnd(c.transport_stream_id, 255),
                               193, 0, 0,
                               U8(Shr(c.program_number, 8)),
                               BitAnd(c.program_number, 255),
                               BitOr(224, U8(Shr(c.pmt_pid, 8))),
                               BitAnd(c.pmt_pid, 255),
                               0, 0, 0, 0 >>) ]

generate_pmt(m) ==
    LET c == m.config
        section_length == 18
    IN  [ mux |-> [m EXCEPT !.pmt_continuity = BitAnd(@ + 1, 15)],
          packet |-> Padded(<< 71,
                               BitOr(64, BitAnd(U8(Shr(c.pmt_pid, 8)), 31)),
                               BitAnd(c.pmt_pid, 255),
                               BitOr(16, m.pmt_continuity),
                               0,
                               2,
                               BitOr(176, U8(Shr(section_length, 8))),
                               BitAnd(section_length, 255),
                               U8(Shr(c.program_number, 8)),
                               BitAnd(c.program_number, 255),
                               193, 0, 0,
                               BitOr(224, U8(Shr(c.pcr_pid, 8))),
                               BitAnd(c.pcr_pid, 255),
                               240, 0,
                               27,
                               BitOr(224, U8(Shr(c.video_pid, 8))),
                               BitAnd(c.video_pid, 255),
                               240, 0,
                               15,
                               BitOr(224, U8(Shr(c.audio_pid, 8))),
                               BitAnd(c.audio_pid, 255),
                               240, 0,
                               0, 0, 0, 0 >>) ]

\* muxer.rs 142-147: PAT and PMT when packet_count is a multiple of psi_interval
psi_packets(m) ==
    IF m.packets_muxed % m.psi_interval = 0
    THEN Bind([pat \in {generate_pat(m)} |->
             Bind([pmt \in {generate_pmt(pat.mux)} |->
                 [mux |-> pmt.mux, packets |-> <<pat.packet, pmt.packet>>]])])
    ELSE [mux |-> m, packets |-> <<>>]

mux_audio(m, aac_data, pts, dts) ==
    Bind([psi \in {psi_packets(m)} |->
        Bind([ts \in {create_ts_packets(psi.mux, create_pes_packet(aac_data, pts, dts),
                               psi.mux.config.audio_pid, TRUE)} |->
            [ mux |-> [ts.mux EXCEPT !.packets_muxed =
                                         @ + Len(psi.packets) + Len(ts.packets)],
              packets |-> psi.packets \o ts.packets ]])])

passthrough_video(m, packet) ==
    [ mux |-> [m EXCEPT !.video_continuity = BitAnd(@ + 1, 15),
                        !.packets_muxed = @ + 1],
      packet |-> [packet EXCEPT ![4] = BitOr(BitAnd(@, 240), m.video_continuity)] ]

\* --------------------------------------------------------- Coordinator

\* audio_remux.rs AudioRemuxConfig::default
AudioRemuxConfig_default ==
    [aac_bitrate |-> 192000, channels |-> 2, sample_rate |-> 48000, aac_profile |-> "AacLc"]

AudioRemuxStats_default ==
    [ packets_processed |-> 0, audio_packets |-> 0, frames_decoded |-> 0,
      frames_encoded |-> 0, packets_output |-> 0, bytes_input |-> 0,
      bytes_output |-> 0, errors |-> 0 ]

\* audio_remux.rs 160-165: the encoder's config from the remuxer's
encoder_config(config) ==
    [ sample_rate |-> config.sample_rate, channels |-> config.channels,
      bitrate |-> config.aac_bitrate, profile |-> config.aac_profile ]

\* audio_remux.rs AudioRemuxer::new, for a config that validate accepts
AudioRemuxer_new(config) ==
    [ config |-> config,
      demuxer |-> TsDemuxer_new,
      decoder |-> "None",
      encoder |-> FfmpegAacEncoder_new(encoder_config(config)),
      muxer |-> TsMuxer_new(TsMuxerConfig_default),
      pcm_buffer |-> <<>>,
      current_pts |-> 0,
      pts_increment |-> (1024 * 90000) \div config.sample_rate,
      stats |-> AudioRemuxStats_default,
      initialized |-> FALSE ]

\* audio_remux.rs ensure_decoder_initialized (with AutoDecoder::new):
\* the handle, and whether the call returned Ok
ensure_decoder_initialized(h) ==
    IF h.decoder = "None"
    THEN LET codec == h.demuxer.audio_codec
         IN  IF codec \in {"Unknown", "Aac"} THEN [h |-> h, ok |-> FALSE]
             ELSE [h |-> [h EXCEPT !.decoder = codec, !.initialized = TRUE], ok |-> TRUE]
    ELSE [h |-> h, ok |-> TRUE]

\* audio_remux.rs 300-340: the decoded samples go to the buffer, the buffer to
\* the encoder, the encoder's output to the muxer.  pcm_samples is one run
\* <<value, count>> of decoded samples.
encode_and_mux(h, pcm_samples, aac_len) ==
    IF pcm_samples[2] = 0 THEN [h |-> h, ret |-> Ok(<<>>)]
    ELSE LET h1 == [h EXCEPT !.stats.frames_decoded = @ + 1,
                             !.pcm_buffer = RlePush(@, pcm_samples[1], pcm_samples[2])]
         IN  Bind([e \in {encode(h1.encoder, h1.pcm_buffer, aac_len)} |->
             LET h2 == [h1 EXCEPT !.encoder = e.enc]
                 pts == h2.current_pts
                 dts == pts
             IN  IF e.ret.kind = "err" THEN [h |-> h2, ret |-> e.ret]
                 ELSE IF e.ret.val = <<>> THEN [h |-> h2, ret |-> Ok(<<>>)]
                 ELSE Bind([m \in {mux_audio(h2.muxer, e.ret.val, pts, dts)} |->
                      [ h |-> [h2 EXCEPT !.stats.frames_encoded = @ + 1,
                                         !.muxer = m.mux,
                                         !.stats.packets_output = @ + Len(m.packets),
                                         !.current_pts = @ + h2.pts_increment],
                        ret |-> Ok(m.packets) ]])])

\* decoder.rs: AudioDecoder::decode returned Err
DecodeFails == -1

\* audio_remux.rs process_ts_packet.  decoded is what the external decoder
\* returns for a complete PES: DecodeFails, or the number of PCM samples; aac_len is
\* the size of the access units the external AAC codec returns.
process_ts_packet(h, ts_packet, decoded, aac_len) ==
    Bind([r \in {process_packet(h.demuxer, ts_packet)} |->
        LET h1 == [h EXCEPT !.demuxer = r.dem]
            h2 == [h1 EXCEPT !.stats.audio_packets = @ + 1]
            i == ensure_decoder_initialized(h2)
        IN  IF r.ret.kind \in {"err", "panic"} THEN [h |-> h1, ret |-> r.ret]
            ELSE IF r.ret.kind = "none" THEN [h |-> h1, ret |-> Ok(<<>>)]
            ELSE IF ~i.ok THEN [h |-> i.h, ret |-> Err("Audio codec not yet detected")]
            ELSE IF decoded = DecodeFails
                 THEN [h |-> i.h, ret |-> Err("Failed to decode audio")]
                 ELSE encode_and_mux(i.h, <<i.h.stats.audio_packets, decoded>>,
                                     aac_len)])

\* audio_remux.rs flush
flush(h, aac_len) ==
    IF h.pcm_buffer # <<>>
    THEN Bind([e \in {encoder_flush(h.encoder, aac_len)} |->
         LET h1 == [h EXCEPT !.encoder = e.enc]
         IN  IF e.ret.kind = "err" THEN [h |-> h1, ret |-> e.ret]
             ELSE IF e.ret.val = <<>> THEN [h |-> h1, ret |-> Ok(<<>>)]
             ELSE Bind([m \in {mux_audio(h1.muxer, e.ret.val, h1.current_pts,
                                 h1.current_pts)} |->
                  [ h |-> [h1 EXCEPT !.muxer = m.mux,
                                     !.stats.packets_output = @ + Len(m.packets)],
                    ret |-> Ok(m.packets) ]])])
    ELSE [h |-> h, ret |-> Ok(<<>>)]

\* audio_remux.rs 225-247: one iteration of the loop of remux, after a packet
\* was read.  written is what the iteration wrote to the output stream.
remux_iteration(h, ts_packet, decoded, aac_len) ==
    Bind([r \in {process_ts_packet([h EXCEPT !.stats.bytes_input = @ + TS_PACKET_SIZE],
                           ts_packet, decoded, aac_len)} |->
        IF r.ret.kind = "panic" THEN [h |-> r.h, ret |-> r.ret, written |-> <<>>]
        ELSE IF r.ret.kind = "ok"
        THEN [ h |-> [r.h EXCEPT !.stats.bytes_output = @ + TS_PACKET_SIZE * Len(r.ret.val),
                                 !.stats.packets_processed = @ + 1],
               ret |-> r.ret, written |-> r.ret.val ]
        ELSE [ h |-> [r.h EXCEPT !.stats.errors = @ + 1,
                                 !.stats.bytes_output = @ + TS_PACKET_SIZE,
                                 !.stats.packets_processed = @ + 1],
               ret |-> r.ret, written |-> <<ts_packet>> ]])

\* ---------------------------------------------------------- construction

\* encoder.rs FfmpegAacEncoder::new: validate, then the external codec is
\* created and opened; codec_opens tells whether the codec accepts
FfmpegAacEncoder_try_new(config, codec_opens) ==
    IF ~validate(config) THEN Err("Invalid configuration")
    ELSE IF ~codec_opens THEN Err("Failed to open AAC encoder")
    ELSE Ok(FfmpegAacEncoder_new(config))

\* audio_remux.rs AudioRemuxer::new
AudioRemuxer_try_new(config, codec_opens) ==
    IF FfmpegAacEncoder_try_new(encoder_config(config), codec_opens).kind = "err"
    THEN Err("Failed to create AAC encoder")
    ELSE Ok(AudioRemuxer_new(config))

\* the casts of ffi.rs 62-67: c_int as u32, c_int as u16.  A negative c_int
\* becomes a u32 of 2^31 or more; such values, which the code only compares
\* with bounds below 2^20, are all represented by 2^31 - 1.
AsU32(x) == IF x < 0 THEN 2147483647 ELSE x
AsU16(x) == x % 65536

NullHandle == [null |-> TRUE]

\* ffi.rs 292-296: the thread-local LAST_ERROR holds None or a message
NoError == "none"

\* ffi.rs xg2g_audio_remux_init: the handle, or NULL with LAST_ERROR set; a
\* successful call leaves LAST_ERROR as it was
xg2g_audio_remux_init(sample_rate, channels, bitrate, codec_opens, last_error) ==
    Bind([r \in {AudioRemuxer_try_new([ aac_bitrate |-> AsU32(bitrate),
                                        channels |-> AsU16(channels),
                                        sample_rate |-> AsU32(sample_rate),
                                        aac_profile |-> "AacLc" ], codec_opens)} |->
        IF r.kind = "ok"
        THEN [handle |-> [null |-> FALSE, remuxer |-> r.val], error |-> last_error]
        ELSE [handle |-> NullHandle, error |-> r.why]])

\* a caught panic that leaves LAST_ERROR unset
caught_panic_silent(h, out, calls) ==
    [h |-> h, ret |-> -1, out |-> out, error |-> NoError, calls |-> calls]

\* ffi.rs 147, 241-247: catch_unwind turns a panic of the pipeline into the
\* return code -1 with LAST_ERROR set; the handle stays as the panic left it.
\* calls is the number of calls of process_ts_packet made.
caught_panic(h, out, calls) ==
    [ h |-> h, ret |-> -1, out |-> out, error |-> "AudioRemuxer process panicked",
      calls |-> calls ]

\* the loop of xg2g_audio_remux_process returning at the first packet that
\* the pipeline rejects
RECURSIVE process_loop_stop_on_error(_, _, _, _, _, _, _, _)
process_loop_stop_on_error(h, input_slice, i, packet_count, out, output_capacity, decoded, aac_len) ==
    IF i >= packet_count
    THEN [ h |-> h, ret |-> TS_PACKET_SIZE * Len(out), out |-> out, error |-> NoError,
           calls |-> i ]
    ELSE Bind([r \in {process_ts_packet(h, Slice(input_slice, i * TS_PACKET_SIZE,
                                                 (i + 1) * TS_PACKET_SIZE),
                                        decoded, aac_len)} |->
        IF r.ret.kind = "panic"
        THEN caught_panic(r.h, out, i + 1)
        ELSE IF r.ret.kind = "err"
        THEN [ h |-> r.h, ret |-> TS_PACKET_SIZE * Len(out), out |-> out,
               error |-> NoError, calls |-> i + 1 ]
        ELSE IF TS_PACKET_SIZE * (Len(out) + Len(r.ret.val)) > output_capacity
        THEN [ h |-> r.h, ret |-> -2,
               out |-> out \o SubSeq(r.ret.val, 1,
                                     output_capacity \div TS_PACKET_SIZE - Len(out)),
               error |-> "Output buffer too small", calls |-> i + 1 ]
        ELSE process_loop_stop_on_error(r.h, input_slice, i + 1, packet_count,
                                        out \o r.ret.val, output_capacity,
                                        decoded, aac_len)])

\* the loop of xg2g_audio_remux_process running the rest of the input after
\* the output buffer overflowed, and then returning -2
RECURSIVE process_loop_drain(_, _, _, _, _, _, _, _)
process_loop_drain(h, input_slice, i, packet_count, out, output_capacity, decoded, aac_len) ==
    IF i >= packet_count
    THEN [ h |-> h, ret |-> TS_PACKET_SIZE * Len(out), out |-> out, error |-> NoError,
           calls |-> i ]
    ELSE Bind([r \in {process_ts_packet(h, Slice(input_slice, i * TS_PACKET_SIZE,
                                                 (i + 1) * TS_PACKET_SIZE),
                                        decoded, aac_len)} |->
        IF r.ret.kind = "panic"
        THEN caught_panic(r.h, out, i + 1)
        ELSE IF r.ret.kind = "err"
        THEN process_loop_drain(r.h, input_slice, i + 1, packet_count, out,
                                output_capacity, decoded, aac_len)
        ELSE IF TS_PACKET_SIZE * (Len(out) + Len(r.ret.val)) > output_capacity
        THEN [ h |-> process_loop_drain(r.h, input_slice, i + 1, packet_count, <<>>,
                                        TS_PACKET_SIZE * 1000, decoded, aac_len).h,
               ret |-> -2,
               out |-> out \o SubSeq(r.ret.val, 1,
                                     output_capacity \div TS_PACKET_SIZE - Len(out)),
               error |-> "Output buffer too small", calls |-> i + 1 ]
        ELSE process_loop_drain(r.h, input_slice, i + 1, packet_count,
                                out \o r.ret.val, output_capacity, decoded, aac_len)])

\* ffi.rs 166-239: the loop of xg2g_audio_remux_process over the packets
\* i..packet_count-1 of input_slice; out is what was copied to the output buffer
RECURSIVE process_loop(_, _, _, _, _, _, _, _)
process_loop(h, input_slice, i, packet_count, out, output_capacity, decoded, aac_len) ==
    IF i >= packet_count
    THEN [ h |-> h, ret |-> TS_PACKET_SIZE * Len(out), out |-> out, error |-> NoError,
           calls |-> i ]
    ELSE Bind([r \in {process_ts_packet(h, Slice(input_slice, i * TS_PACKET_SIZE,
                                                 (i + 1) * TS_PACKET_SIZE),
                                        decoded, aac_len)} |->
        IF r.ret.kind = "panic"
        THEN caught_panic(r.h, out, i + 1)
        ELSE IF r.ret.kind = "err"
        THEN process_loop(r.h, input_slice, i + 1, packet_count, out, output_capacity,
                          decoded, aac_len)
        ELSE IF TS_PACKET_SIZE * (Len(out) + Len(r.ret.val)) > output_capacity
        THEN [ h |-> r.h, ret |-> -2,
               out |-> out \o SubSeq(r.ret.val, 1,
                                     output_capacity \div TS_PACKET_SIZE - Len(out)),
               error |-> "Output buffer too small", calls |-> i + 1 ]
        ELSE process_loop(r.h, input_slice, i + 1, packet_count, out \o r.ret.val,
                          output_capacity, decoded, aac_len)])

\* xg2g_audio_remux_process checking only the handle for NULL
xg2g_audio_remux_process_handle_only(handle, input, output, decoded, aac_len) ==
    IF handle.null
    THEN [handle |-> handle, ret |-> -1, out |-> <<>>, error |-> NoError, calls |-> 0]
    ELSE Bind([r \in {process_loop(handle.remuxer, input.bytes, 0,
                                   Len(input.bytes) \div TS_PACKET_SIZE, <<>>,
                                   output.capacity, decoded, aac_len)} |->
        [ handle |-> [handle EXCEPT !.remuxer = r.h],
          ret |-> r.ret, out |-> r.out, error |-> r.error, calls |-> r.calls ]])

\* ffi.rs xg2g_audio_remux_process: handle is NullHandle or [null, remuxer],
\* input is [null, bytes], output is [null, capacity].  LAST_ERROR is cleared
\* first (138-140), so error is what LAST_ERROR holds when the call returns;
\* calls is by how much the call advances the static CALL_COUNT of
\* process_ts_packet (audio_remux.rs 273-274), which handles share.
xg2g_audio_remux_process(handle, input, output, decoded, aac_len) ==
    IF handle.null \/ input.null \/ output.null
    THEN [handle |-> handle, ret |-> -1, out |-> <<>>, error |-> NoError, calls |-> 0]
    ELSE Bind([r \in {process_loop(handle.remuxer, input.bytes, 0,
                                   Len(input.bytes) \div TS_PACKET_SIZE, <<>>,
                                   output.capacity, decoded, aac_len)} |->
        [ handle |-> [handle EXCEPT !.remuxer = r.h],
          ret |-> r.ret, out |-> r.out, error |-> r.error, calls |-> r.calls ]])

\* ffi.rs xg2g_audio_remux_free: TRUE when the handle's box was dropped
xg2g_audio_remux_free(handle) == ~handle.null

\* ffi.rs xg2g_last_error: take() returns what LAST_ERROR holds and clears it
xg2g_last_error(last_error) == [ret |-> last_error, error |-> NoError]

\* ----------------------------------------------------------------- state

VARIABLES
    remuxer,    \* the AudioRemuxer of one handle (demuxer, encoder, muxer, ...)
    pc,         \* "run", "done" (remux returned) or "crashed" (a panic unwound); "new", "freed": handle not yet made, freed
    last,       \* the last operation: its input and what it returned
    pes_log,    \* <<pts, dts>> of every PES start returned so far, in order
    cc_seen,    \* per PID, the continuity counter of the last packet emitted
    steps       \* how many operations were called

vars == <<remuxer, pc, last, pes_log, cc_seen, steps>>

\* ---------------------------------------------- reading emitted packets

PidOf(p) == Low(At(p, 1), 5) * 256 + At(p, 2)
PusiOf(p) == Bit(At(p, 1), 6) = 1
CcOf(p) == Low(At(p, 3), 4)

\* the 33-bit timestamp of a 5-byte PES stamp starting at byte i of p
StampAt(p, i) ==
    Low(Shr(At(p, i), 1), 3) * Pow2(30) + At(p, i + 1) * Pow2(22)
    + Shr(At(p, i + 2), 1) * Pow2(15) + At(p, i + 3) * Pow2(7) + Shr(At(p, i + 4), 1)

\* cc_seen after the packets were emitted
RECURSIVE CcAfter(_, _)
CcAfter(seen, packets) ==
    IF packets = <<>> THEN seen
    ELSE LET p == Head(packets)
         IN  CcAfter([q \in DOMAIN seen \cup {PidOf(p)} |->
                         IF q = PidOf(p) THEN CcOf(p) ELSE seen[q]],
                     Tail(packets))

\* every packet carries its PID's previous counter plus one (mod 16), or 0 when
\* it is the first on its PID
RECURSIVE CcContinues(_, _)
CcContinues(seen, packets) ==
    IF packets = <<>> THEN TRUE
    ELSE LET p == Head(packets)
             expected == IF PidOf(p) \in DOMAIN seen THEN (seen[PidOf(p)] + 1) % 16
                         ELSE 0
         IN  /\ CcOf(p) = expected
             /\ CcContinues(CcAfter(seen, <<p>>), Tail(packets))

\* ------------------------------------------------ the parser on its own

ParseLens == {0, 1, 187, 188, 189}
ParseByte0 == {71, 255, 0, 70}
ParseByte1 == {0, 64, 159}
ParseByte3 == {16, 48, 32, 0, 245}
ParseByte4 == {0, 7, 182, 183, 184, 255}

ParseInput(n, b0, b1, b3, b4) ==
    SubSeq(<<b0, b1, 17, b3, b4>> \o Fill(184, 90), 1, n)

InitParse ==
    /\ remuxer = AudioRemuxer_new(AudioRemuxConfig_default)
    /\ pc = "run"
    /\ \E n \in ParseLens, b0 \in ParseByte0, b1 \in ParseByte1,
          b3 \in ParseByte3, b4 \in ParseByte4 :
          last = [op |-> "input", input |-> ParseInput(n, b0, b1, b3, b4)]
    /\ pes_log = <<>>
    /\ cc_seen = <<>>
    /\ steps = 0

ParseStep ==
    /\ last.op = "input"
    /\ last' = [op |-> "parse", input |-> last.input, ret |-> TsPacket_parse(last.input)]
    /\ UNCHANGED <<remuxer, pc, pes_log, cc_seen, steps>>

NextParse == ParseStep

SpecParse == InitParse /\ [][NextParse]_vars

\* C4: TsPacket::parse returns Ok iff the slice is 188 bytes long and starts
\* with 0x47, and never faults, whatever the header and the adaptation length.
C4_ParseAcceptsIffSizeAndSync ==
    last.op = "parse" =>
        /\ last.ret.kind # "panic"
        /\ last.ret.kind = "ok" <=>
               (Len(last.input) = 188 /\ last.input[1] = 71)

\* an accepted packet whose adaptation_length (255) runs past the packet's end
C4_Witness ==
    /\ last.op = "parse"
    /\ last.ret.kind = "ok"
    /\ last.ret.has_adaptation /\ last.ret.has_payload
    /\ last.ret.payload_offset > 188
    /\ last.ret.payload = <<>>

\* --------------------------------------------- the multiplexer on its own

MaxMuxSteps == 15
MuxAacSizes == {500}
VideoCcs == {0, 9}

VideoPacket(afc, cc) == Padded(<<71, 1, 0, afc * 16 + cc>>)

InitMux ==
    /\ remuxer = AudioRemuxer_new(AudioRemuxConfig_default)
    /\ pc = "run"
    /\ last = [op |-> "none", since_psi |-> NONE]
    /\ pes_log = <<>>
    /\ cc_seen = <<>>
    /\ steps = 0

\* mux_audio returned a PAT and a PMT packet in front of its audio packets
StartsWithPsi(m, packets) ==
    /\ Len(packets) >= 2
    /\ PidOf(packets[1]) = PAT_PID
    /\ PidOf(packets[2]) = m.config.pmt_pid

\* last keeps the call, the packets it returned, the continuity counters seen
\* before it, and since_psi: the number of packets muxed after the latest PAT
\* and PMT that mux_audio emitted (NONE before the first)
Emit(op, m, packets) ==
    /\ remuxer' = [remuxer EXCEPT !.muxer = m]
    /\ last' = [ op |-> op, packets |-> packets, prev_cc |-> cc_seen,
                 since_psi |->
                     IF op = "mux_audio" /\ StartsWithPsi(m, packets)
                     THEN Len(packets) - 2
                     ELSE IF last.since_psi = NONE THEN NONE
                     ELSE last.since_psi + Len(packets) ]
    /\ cc_seen' = CcAfter(cc_seen, packets)
    /\ steps' = steps + 1
    /\ UNCHANGED <<pc, pes_log>>

MuxAudioCall ==
    /\ steps < MaxMuxSteps
    /\ \E n \in MuxAacSizes :
          LET r == mux_audio(remuxer.muxer, Fill(n, 170), 1920 * steps, 1920 * steps)
          IN  Emit("mux_audio", r.mux, r.packets)

PassthroughVideoCall ==
    /\ steps < MaxMuxSteps
    /\ \E afc \in {1}, cc \in VideoCcs :
          LET r == passthrough_video(remuxer.muxer, VideoPacket(afc, cc))
          IN  Emit("passthrough_video", r.mux, <<r.packet>>)

GeneratePatCall ==
    /\ steps < MaxMuxSteps
    /\ LET r == generate_pat(remuxer.muxer)
       IN  Emit("generate_pat", r.mux, <<r.packet>>)

GeneratePmtCall ==
    /\ steps < MaxMuxSteps
    /\ LET r == generate_pmt(remuxer.muxer)
       IN  Emit("generate_pmt", r.mux, <<r.packet>>)

NextMux ==
    \/ MuxAudioCall
    \/ PassthroughVideoCall
    \/ GeneratePatCall
    \/ GeneratePmtCall

SpecMux == InitMux /\ [][NextMux]_vars

\* C1: on every PID the muxer emits on, consecutive packets carry continuity
\* counters that differ by exactly 1 modulo 16, and the first packet carries 0.
C1_ContinuityAdvancesByOne ==
    last.op \in {"mux_audio", "passthrough_video", "generate_pat", "generate_pmt"} =>
        CcContinues(last.prev_cc, last.packets)

\* a mux_audio call whose audio packets wrap the counter from 15 to 0, after the
\* video, PAT and PMT PIDs have all been emitted on
C1_Witness ==
    /\ last.op = "mux_audio"
    /\ DOMAIN last.prev_cc = {0, 256, 257, 4096}
    /\ last.prev_cc[257] >= 10
    /\ cc_seen[257] < last.prev_cc[257]
    /\ Len(last.packets) >= 3

\* C12: the muxer emits a PAT and a PMT packet on the first mux_audio call and
\* every PSI interval thereafter: no more than psi_interval (40) packets are
\* muxed between one PAT+PMT emission and the next, and when PSI is emitted
\* the PAT and the PMT precede the audio packets of that call.
C12_PsiEveryInterval ==
    /\ (last.op = "mux_audio" /\ remuxer.muxer.config.audio_pid \notin DOMAIN last.prev_cc) =>
            StartsWithPsi(remuxer.muxer, last.packets)
    /\ last.since_psi <= remuxer.muxer.psi_interval
    /\ last.op = "mux_audio" =>
            \A i \in 1..Len(last.packets) :
                PidOf(last.packets[i]) \in {PAT_PID, remuxer.muxer.config.pmt_pid} =>
                    /\ StartsWithPsi(remuxer.muxer, last.packets)
                    /\ i <= 2

\* ------------------------------------------------------ input TS packets

\* the 4-byte TS header (ISO/IEC 13818-1, as TsPacket::parse reads it)
TsHeader(sync, pusi, pid, scr, afc, cc) ==
    <<sync, pusi * 64 + pid \div 256, pid % 256, scr * 64 + afc * 16 + cc>>

\* a packet carrying exactly payload: without adaptation field when payload is
\* 184 bytes, else with an adaptation field of stuffing in front of it
TsWithPayload(pusi, pid, scr, cc, payload) ==
    IF Len(payload) = 184 THEN TsHeader(71, pusi, pid, scr, 1, cc) \o payload
    ELSE TsHeader(71, pusi, pid, scr, 3, cc) \o <<183 - Len(payload)>>
         \o Fill(183 - Len(payload), 255) \o payload

\* a PSI packet: pointer_field, then the section, then 0xFF
PsiPacket(pid, cc, pointer, section) ==
    Padded(TsHeader(71, 1, pid, 0, 1, cc) \o <<pointer>> \o section)

RECURSIVE Flatten(_)
Flatten(ss) == IF ss = <<>> THEN <<>> ELSE Head(ss) \o Flatten(Tail(ss))

\* a PAT section: entries are <<program_number, pid>>
PatSection(table_id, entries, crc) ==
    LET body == Flatten([i \in 1..Len(entries) |->
                    << entries[i][1] \div 256, entries[i][1] % 256,
                       224 + entries[i][2] \div 256, entries[i][2] % 256 >>])
        section_length == 5 + Len(body) + 4
    IN  <<table_id, 176 + section_length \div 256, section_length % 256,
          0, 1, 193, 0, 0>> \o body \o crc

\* a PMT section: entries are <<stream_type, pid, descriptors>>
PmtSection(table_id, entries, crc) ==
    LET body == Flatten([i \in 1..Len(entries) |->
                    << entries[i][1],
                       224 + entries[i][2] \div 256, entries[i][2] % 256,
                       240 + Len(entries[i][3]) \div 256, Len(entries[i][3]) % 256 >>
                    \o entries[i][3]])
        section_length == 9 + Len(body) + 4
    IN  <<table_id, 176 + section_length \div 256, section_length % 256,
          0, 1, 193, 0, 0, 225, 0, 240, 0>> \o body \o crc

\* a payload of n bytes that starts a PES: start code, stream_id,
\* PES_packet_length, the body, and 0xFF after the declared length
PesHead(start_code, stream_id, len_field, n, body_byte) ==
    LET body_len == IF len_field = 0 \/ len_field > n - 6 THEN n - 6 ELSE len_field
    IN  start_code \o <<stream_id, len_field \div 256, len_field % 256>>
        \o Fill(body_len, body_byte) \o Fill(n - 6 - body_len, 255)

SeedPat == PsiPacket(0, 0, 0, PatSection(0, << <<1, 256>> >>, <<0, 0, 0, 0>>))
SeedPmt == PsiPacket(256, 0, 0, PmtSection(2, << <<3, 257, <<>> >> >>, <<0, 0, 0, 0>>))

\* the input packet a descriptor stands for
RECURSIVE Bytes(_)
Bytes(d) ==
    CASE d.kind = "pat" -> PsiPacket(0, d.cc, 0, PatSection(d.table_id, d.entries, d.crc))
      [] d.kind = "pmt" -> PsiPacket(d.pid, d.cc, 0,
                                     PmtSection(d.table_id, d.entries, <<0, 0, 0, 0>>))
      [] d.kind = "start" ->
             TsWithPayload(1, d.pid, 0, d.cc,
                           PesHead(d.start_code, d.stream_id, d.len_field,
                                   d.payload_len, d.fill))
      [] d.kind = "cont" -> TsWithPayload(0, d.pid, 0, d.cc, Fill(d.payload_len, d.fill))
      [] d.kind = "nostart" ->
             TsWithPayload(0, d.pid, 0, d.cc,
                           PesHead(d.start_code, d.stream_id, d.len_field,
                                   d.payload_len, d.fill))
      [] d.kind = "pointer" -> PsiPacket(d.pid, d.cc, d.pointer, <<>>)
      [] d.kind = "scrambled" ->
             [Bytes(d.of) EXCEPT ![4] = d.scrambling * 64 + Low(@, 6)]
      [] d.kind = "patched" ->
             [Bytes(d.of) EXCEPT ![d.offset + 1] = d.high + Shr(d.length, 8),
                                 ![d.offset + 2] = Low(d.length, 8)]
      [] d.kind = "badsync" -> [SeedPat EXCEPT ![1] = 255]

PatInput(entries, crc) ==
    [kind |-> "pat", cc |-> 0, table_id |-> 0, entries |-> entries, crc |-> crc]
PmtInput(pid, entries) ==
    [kind |-> "pmt", pid |-> pid, cc |-> 0, table_id |-> 2, entries |-> entries]
StartInput(pid, cc, len_field, payload_len) ==
    [ kind |-> "start", pid |-> pid, cc |-> cc, start_code |-> <<0, 0, 1>>,
      stream_id |-> 192, len_field |-> len_field, payload_len |-> payload_len,
      fill |-> 17 ]
ContInput(pid, cc, payload_len) ==
    [kind |-> "cont", pid |-> pid, cc |-> cc, payload_len |-> payload_len, fill |-> 34]
BadSyncInput == [kind |-> "badsync"]
\* the table packet of d with a 12-bit length field overwritten: the
\* section_length, and the ES_info_length of the first stream entry of a PMT
PatchedInput(d, offset, high, length) == [kind |-> "patched", of |-> d, offset |-> offset, high |-> high, length |-> length]
LongSectionInput(d, section_length) == PatchedInput(d, 6, 176, section_length)
LongEsInfoInput(d, es_info_length) == PatchedInput(d, 20, 240, es_info_length)
\* the packet of d with transport_scrambling_control set
ScrambledInput(d, scrambling) == [kind |-> "scrambled", of |-> d, scrambling |-> scrambling]
\* a PSI packet whose pointer_field points past the end of the payload
PointerInput(pid, pointer) == [kind |-> "pointer", pid |-> pid, cc |-> 0, pointer |-> pointer]

\* ------------------------------------------------------------- pipeline

MaxPackets == 5
ContCcs == {6, 7}
DecodeOutcomes == {DecodeFails, 0, 2304}
AacLens == {200}
SampleRates == {48000, 44100}

\* the seed PAT and PMT, a bad packet, and on the audio PID a whole PES, the
\* first packet of a longer one and a continuation packet
PipeInputs ==
    {PatInput(<< <<1, 256>> >>, <<0, 0, 0, 0>>), PmtInput(256, << <<3, 257, <<>> >> >>),
     BadSyncInput, StartInput(257, 5, 32, 184), StartInput(257, 5, 300, 184)}
    \cup {ContInput(257, cc, 184) : cc \in ContCcs}

\* <<pts, dts>> of the PES starts among packets: the PUSI packets on the
\* muxer's audio PID, whose PES header starts at byte 4
RECURSIVE PesStamps(_)
PesStamps(packets) ==
    IF packets = <<>> THEN <<>>
    ELSE LET p == Head(packets)
         IN  (IF PidOf(p) = TsMuxerConfig_default.audio_pid /\ PusiOf(p)
              THEN << <<StampAt(p, 13), StampAt(p, 18)>> >>
              ELSE <<>>)
             \o PesStamps(Tail(packets))

Returned(r) == IF r.ret.kind = "ok" THEN r.ret.val ELSE <<>>

Init ==
    /\ \E sr \in SampleRates :
          remuxer = AudioRemuxer_new([AudioRemuxConfig_default EXCEPT !.sample_rate = sr])
    /\ pc = "run"
    /\ last = [op |-> "none", decoded_total |-> 0]
    /\ pes_log = <<>>
    /\ cc_seen = <<>>
    /\ steps = 0

\* the samples the decoder returned in a call that took handle h to h2: decode
\* returned samples exactly when frames_decoded was incremented
DecodedIn(h, h2, decoded) ==
    IF h2.stats.frames_decoded > h.stats.frames_decoded THEN decoded ELSE 0

\* one iteration of the loop of AudioRemuxer::remux; last.decoded_total is the
\* number of samples the decoder has returned so far
RemuxStep ==
    /\ pc = "run"
    /\ steps < MaxPackets
    /\ \E d \in PipeInputs, decoded \in DecodeOutcomes, aac_len \in AacLens :
          \E r \in {remux_iteration(remuxer, Bytes(d), decoded, aac_len)} :
              /\ remuxer' = r.h
              /\ pc' = IF r.ret.kind = "panic" THEN "crashed" ELSE "run"
              /\ last' = [ op |-> "process", input |-> d, ret |-> r.ret.kind,
                           packets |-> Returned(r), written |-> r.written,
                           decoded_total |->
                               last.decoded_total + DecodedIn(remuxer, r.h, decoded) ]
              /\ pes_log' = pes_log \o PesStamps(Returned(r))
              /\ cc_seen' = CcAfter(cc_seen, Returned(r))
    /\ steps' = steps + 1

\* end of input: remux flushes and returns
RemuxEnd ==
    /\ pc = "run"
    /\ \E aac_len \in AacLens :
          \E r \in {flush(remuxer, aac_len)} :
              /\ remuxer' = [r.h EXCEPT !.stats.bytes_output =
                                 @ + TS_PACKET_SIZE * Len(Returned(r))]
              /\ last' = [ op |-> "flush", ret |-> r.ret.kind,
                           packets |-> Returned(r), written |-> Returned(r),
                           decoded_total |-> last.decoded_total ]
              /\ pes_log' = pes_log \o PesStamps(Returned(r))
              /\ cc_seen' = CcAfter(cc_seen, Returned(r))
    /\ pc' = "done"
    /\ steps' = steps + 1

Next ==
    \/ RemuxStep
    \/ RemuxEnd

Spec == Init /\ [][Next]_vars

\* the PTS step fixed at creation
PtsStep == (1024 * 90000) \div remuxer.config.sample_rate

\* the reassembly buffer of the demuxer's audio PID
AudioBuffer(h) == buffer_of(h.demuxer, h.demuxer.audio_pid)

\* C2: every AAC frame the encoder produced is carried in a PES of its own:
\* as many PES starts were emitted on the audio PID as frames were encoded,
\* and the k-th of them (from 0) carries PTS k * PtsStep.
C2_OnePesPerFrame ==
    /\ Len(pes_log) = remuxer.encoder.frames_encoded
    /\ \A k \in 1..Len(pes_log) : pes_log[k][1] = (k - 1) * PtsStep

\* C3: the emitted PES carry PTS 0, d, 2d, ... in emission order, d being
\* PtsStep, and each carries a DTS equal to its PTS.
C3_PtsProgression ==
    \A k \in 1..Len(pes_log) :
        /\ pes_log[k][1] = (k - 1) * PtsStep
        /\ pes_log[k][2] = pes_log[k][1]

\* three PES at 48000 Hz, the third emitted by the flush at the end of input
C3_Witness ==
    /\ remuxer.config.sample_rate = 48000
    /\ last.op = "flush"
    /\ Len(last.packets) > 0
    /\ Len(pes_log) = 3
    /\ pes_log[2][1] = 1920
    /\ pes_log[3] = <<3840, 3840>>

\* the packet of the step is an audio-PID packet whose continuity counter is
\* not the one the started reassembly buffer expects
ContinuityBreak ==
    /\ last'.op = "process"
    /\ last'.input.kind \in {"start", "cont"}
    /\ last'.input.pid = remuxer.demuxer.audio_pid
    /\ AudioBuffer(remuxer).started
    /\ last'.input.cc # AudioBuffer(remuxer).expected_continuity

\* C6: a continuity break on the started audio buffer produces no output,
\* resets the buffer (empty, not started) and adds exactly 1 to errors.
C6_ContinuityBreakCounted ==
    [][ContinuityBreak =>
            /\ last'.packets = <<>>
            /\ last'.written = <<>>
            /\ AudioBuffer(remuxer').data = <<>>
            /\ ~AudioBuffer(remuxer').started
            /\ remuxer'.stats.errors = remuxer.stats.errors + 1]_vars

\* ------------------------------------------------- demuxer, PES reassembly

\* samples in one AAC frame: channels x 1024
SamplesPerFrame(h) == frame_size * h.encoder.config.channels

\* C13: every decoded PCM sample is fed to the encoder exactly once: after any
\* sequence of process calls the samples consumed by encoded frames plus the
\* samples still waiting in the encoder equal the samples decoded so far, and
\* no complete block of channels x 1024 samples is left unencoded.
C13_PcmFedOnce ==
    last.op = "process" =>
        /\ remuxer.encoder.frames_encoded * SamplesPerFrame(remuxer)
              + RleLen(remuxer.encoder.sample_buffer) = last.decoded_total
        /\ RleLen(remuxer.encoder.sample_buffer) < SamplesPerFrame(remuxer)

\* C14: the PCM held between process calls stays bounded: after every process
\* call the coordinator's PCM buffer together with the encoder's input buffer
\* holds fewer than channels x 1024 samples.
C14_PcmBounded ==
    last.op = "process" =>
        RleLen(remuxer.pcm_buffer) + RleLen(remuxer.encoder.sample_buffer)
            < SamplesPerFrame(remuxer)

\* C19: a 188-byte input whose sync byte is not 0x47 is a recoverable error:
\* errors increases by 1, no TS packet is output for it, and the demuxer (its
\* tables and PES buffers), the PTS and the muxer are left unchanged.
C19_BadSyncRecoverable ==
    [][ (last'.op = "process" /\ last'.input.kind = "badsync") =>
            /\ pc' = "run"
            /\ remuxer'.stats.errors = remuxer.stats.errors + 1
            /\ last'.packets = <<>>
            /\ last'.written = <<>>
            /\ remuxer'.demuxer = remuxer.demuxer
            /\ remuxer'.current_pts = remuxer.current_pts
            /\ remuxer'.muxer = remuxer.muxer ]_vars

\* TsDemuxer::process_packet on the handle's demuxer, as process_ts_packet
\* calls it.  last keeps the input, the result, and what the audio buffer was
\* before the call; after_break tells that a continuity break reset the audio
\* buffer and no PES has started on it since.
Demux(d) ==
    \E r \in {process_packet(remuxer.demuxer, Bytes(d))} :
        LET pre == AudioBuffer(remuxer)
            on_audio == d.kind \in {"start", "cont"}
                        /\ d.pid = remuxer.demuxer.audio_pid
            break == on_audio /\ pre.started /\ d.cc # pre.expected_continuity
            post == buffer_of(r.dem, r.dem.audio_pid)
        IN  /\ remuxer' = [remuxer EXCEPT !.demuxer = r.dem]
            /\ pc' = IF r.ret.kind = "panic" THEN "crashed" ELSE "run"
            /\ last' = [ op |-> "demux", input |-> d, ret |-> r.ret,
                         pre |-> [ started |-> pre.started,
                                   len |-> RleLen(pre.data),
                                   expected_continuity |-> pre.expected_continuity,
                                   audio_pid |-> remuxer.demuxer.audio_pid,
                                   pmt_pid |-> remuxer.demuxer.pmt_pid,
                                   after_break |-> last.after_break ],
                         after_break |->
                             \/ break
                             \/ /\ last.after_break
                                /\ ~post.started
                                /\ r.ret.kind # "some" ]
            /\ steps' = steps + 1
            /\ UNCHANGED <<pes_log, cc_seen>>

InitDemux ==
    /\ remuxer = AudioRemuxer_new(AudioRemuxConfig_default)
    /\ pc = "run"
    /\ last = [op |-> "none", after_break |-> FALSE]
    /\ pes_log = <<>>
    /\ cc_seen = <<>>
    /\ steps = 0

MaxPesSteps == 6

\* on the audio PID: PES starts with a short and a long declared length, with
\* a full payload or one of exactly the declared length, one with a wrong start
\* code and one with the stream_id of a video stream, and continuations
PesInputs ==
    { PatInput(<< <<1, 256>> >>, <<0, 0, 0, 0>>), PmtInput(256, << <<3, 257, <<>> >> >>),
      StartInput(257, 5, 32, 184), StartInput(257, 5, 32, 38),
      StartInput(257, 5, 300, 184), StartInput(257, 9, 300, 184),
      StartInput(257, 9, 32, 38),
      [StartInput(257, 5, 32, 184) EXCEPT !.start_code = <<0, 0, 2>>],
      [StartInput(257, 5, 300, 184) EXCEPT !.stream_id = 224],
      ContInput(257, 6, 184), ContInput(257, 6, 122),
      ContInput(257, 7, 184), ContInput(257, 10, 122) }

PesStep ==
    /\ pc = "run"
    /\ steps < MaxPesSteps
    /\ \E d \in PesInputs : Demux(d)

\* scrambled packets on PID 0, on the PMT PID and on the audio PID, each of
\* which would change the demuxer if it were clear
ScrambledInputs ==
    { ScrambledInput(d, scrambling) :
          d \in { PatInput(<< <<2, 512>> >>, <<0, 0, 0, 0>>),
                  PmtInput(256, << <<4, 258, <<>> >> >>),
                  StartInput(257, 5, 32, 184),
                  ContInput(257, 6, 184) },
          scrambling \in 1..3 }

ScrambledStep ==
    /\ pc = "run"
    /\ steps < MaxPesSteps
    /\ \E d \in ScrambledInputs : Demux(d)

NextPes == PesStep \/ ScrambledStep

SpecPes == InitDemux /\ [][NextPes]_vars

\* C5: a PES the demuxer yields on the audio PID, with length field L > 0 in
\* its header, is exactly L + 6 bytes long.
C5_YieldsDeclaredLength ==
    (last.op = "demux" /\ last.ret.kind = "some") =>
        LET L == RleAt(last.ret.pes, 4) * 256 + RleAt(last.ret.pes, 5)
        IN  L > 0 => RleLen(last.ret.pes) = L + 6

\* the payload of the input packet of the last step
LastPayload == TsPacket_parse(Bytes(last.input)).payload

\* the last step fed, after a continuity break, the first audio packet with
\* PUSI = 1 and a valid PES header
Resumed ==
    /\ last.op = "demux"
    /\ last.pre.after_break
    /\ last.input.kind = "start"
    /\ last.input.pid = last.pre.audio_pid
    /\ last.input.start_code = <<0, 0, 1>>

\* C7: after a continuity break reset the audio buffer, the next PUSI = 1
\* audio packet with a valid PES header starts a fresh PES whatever its
\* continuity counter: the buffer holds that packet's payload and nothing
\* else, or, when the declared length has arrived, that payload is yielded;
\* and a started buffer never holds a complete PES.
C7_ResumesAfterBreak ==
    /\ Resumed =>
          LET declared == IF last.input.len_field = 0 THEN MAX_PES_SIZE
                          ELSE last.input.len_field + 6
              buf == AudioBuffer(remuxer)
          IN  IF Len(LastPayload) >= declared
              THEN /\ last.ret = Some(ToRle(LastPayload))
                   /\ ~buf.started /\ buf.data = <<>>
              ELSE /\ last.ret = None
                   /\ buf.started
                   /\ buf.data = ToRle(LastPayload)
                   /\ buf.pes_length = declared
    /\ last.op = "demux" /\ AudioBuffer(remuxer).started =>
          RleLen(AudioBuffer(remuxer).data) < AudioBuffer(remuxer).pes_length

\* a PES resumed after a break with a counter the buffer did not expect
C7_Witness ==
    /\ Resumed
    /\ last.input.cc # last.pre.expected_continuity
    /\ last.ret.kind = "some"
    /\ RleLen(last.ret.pes) = 38

\* --------------------------------------------------- demuxer, PAT and PMT

MaxPsiSteps == 3
\* the most program entries a PAT section in one packet can hold: the payload
\* less the pointer_field, the 8 header bytes and the CRC
ManyPrograms == (TS_PACKET_SIZE - 4 - 1 - 8 - 4) \div 4

PatInputs ==
    { PatInput(<< <<1, 256>> >>, <<0, 0, 0, 0>>),
      PatInput(<< <<0, 16>>, <<1, 256>> >>, <<18, 52, 86, 120>>),
      PatInput(<< <<2, 512>>, <<1, 256>> >>, <<18, 52, 86, 120>>),
      PatInput(<< <<0, 16>> >>, <<0, 0, 0, 0>>),
      PatInput(<< <<0, 16>> >>, <<171, 205, 225, 35>>),
      PatInput([i \in 1..ManyPrograms |-> <<i, 256>>], <<0, 0, 0, 0>>),
      [PatInput(<< <<1, 256>> >>, <<0, 0, 0, 0>>) EXCEPT !.table_id = 66] }

\* ES descriptors: ISO 639 language, AC-3 (0x6A), enhanced AC-3 (0x7A)
Iso639Descriptor == <<10, 4, 100, 101, 117, 0>>
Ac3Descriptor == <<106, 1, 0>>
Eac3Descriptor == <<122, 1, 0>>

PmtInputs ==
    { PmtInput(256, << <<3, 257, <<>> >> >>),
      PmtInput(256, << <<4, 258, Iso639Descriptor>> >>),
      PmtInput(256, << <<129, 259, <<>> >> >>),
      PmtInput(256, << <<27, 300, <<40, 2, 1, 2>> >>, <<3, 257, <<>> >> >>),
      PmtInput(256, << <<6, 260, Ac3Descriptor>> >>),
      PmtInput(256, << <<6, 262, Iso639Descriptor \o Eac3Descriptor>> >>),
      PmtInput(256, << <<6, 261, Iso639Descriptor>>, <<4, 258, <<>> >> >>),
      PmtInput(256, << <<6, 263, <<>> >>, <<129, 259, <<>> >> >>),
      PmtInput(256, << <<27, 300, <<>> >>, <<6, 264, <<>> >> >>),
      PmtInput(256, << <<15, 265, <<>> >>, <<3, 257, <<>> >> >>),
      [PmtInput(256, << <<3, 257, <<>> >> >>) EXCEPT !.table_id = 66] }

PatStep ==
    /\ pc = "run"
    /\ steps < MaxPsiSteps
    /\ \E d \in PatInputs : Demux(d)

PmtStep ==
    /\ pc = "run"
    /\ steps < MaxPsiSteps
    /\ \E d \in PmtInputs : Demux(d)

\* tables whose pointer_field or section_length reach past the packet
MalformedInputs ==
    { PointerInput(pid, pointer) : pid \in {0, 256}, pointer \in {183, 184, 255} }
    \cup { LongSectionInput(PatInput(<< <<0, 16>> >>, <<0, 0, 0, 0>>), 4095),
           LongSectionInput(PmtInput(256, << <<27, 300, <<>> >> >>), 4095),
           LongSectionInput(PmtInput(256, << <<6, 260, Ac3Descriptor>> >>), 4095),
           LongEsInfoInput(PmtInput(256, << <<27, 300, <<>> >>, <<3, 257, <<>> >> >>), 4095),
           LongEsInfoInput(PmtInput(256, << <<6, 260, Ac3Descriptor>> >>), 100),
           LongEsInfoInput(PmtInput(256, << <<6, 260, <<>> >> >>), 4095) }

MalformedStep ==
    /\ pc = "run"
    /\ steps < MaxPsiSteps
    /\ \E d \in MalformedInputs : Demux(d)

NextPsi ==
    \/ PatStep
    \/ PmtStep
    \/ MalformedStep

SpecPsi == InitDemux /\ [][NextPsi]_vars

\* the first entry of a program list with a non-zero program_number, or 0
RECURSIVE FirstProgram(_, _)
FirstProgram(entries, i) ==
    IF i > Len(entries) THEN 0
    ELSE IF entries[i][1] # 0 THEN i
    ELSE FirstProgram(entries, i + 1)

\* C9: a PAT packet (PID 0, PUSI = 1, table_id 0) sets pmt_pid to the PID of
\* the first program entry with a non-zero program_number, entries with
\* program_number 0 being skipped, and produces no output.
C9_PatAdoptsFirstProgram ==
    (last.op = "demux" /\ last.input.kind = "pat" /\ last.input.table_id = 0) =>
        LET i == FirstProgram(last.input.entries, 1)
        IN  /\ last.ret = None
            /\ remuxer.demuxer.pmt_pid =
                   IF i = 0 THEN last.pre.pmt_pid ELSE last.input.entries[i][2]

\* the tags of a descriptor loop
RECURSIVE DescriptorTags(_)
DescriptorTags(desc) ==
    IF Len(desc) < 2 THEN {}
    ELSE {desc[1]} \cup DescriptorTags(SubSeq(desc, 3 + desc[2], Len(desc)))

\* the codec C10 gives an elementary-stream entry, "Unknown" for other types
ClaimedCodec(entry) ==
    IF entry[1] \in {3, 4} THEN "Mp2"
    ELSE IF entry[1] = 129 THEN "Ac3"
    ELSE IF entry[1] = 6 /\ DescriptorTags(entry[3]) \cap {106, 122, 129} # {}
         THEN "Ac3"
    ELSE "Unknown"

RECURSIVE FirstAudio(_, _)
FirstAudio(entries, i) ==
    IF i > Len(entries) THEN 0
    ELSE IF ClaimedCodec(entries[i]) # "Unknown" THEN i
    ELSE FirstAudio(entries, i + 1)

\* C10: a PMT packet (PID = pmt_pid, PUSI = 1, table_id 2) makes the demuxer
\* adopt the first entry whose stream_type maps to an audio codec (0x03, 0x04:
\* MP2; 0x81: AC-3; 0x06: AC-3 iff a descriptor 0x6A, 0x7A or 0x81 is there),
\* recording its PID and codec; entries of other types are skipped.
C10_PmtAdoptsFirstAudio ==
    ( /\ last.op = "demux" /\ last.input.kind = "pmt"
      /\ last.input.table_id = 2 /\ last.input.pid = last.pre.pmt_pid ) =>
        LET i == FirstAudio(last.input.entries, 1)
        IN  IF i = 0 THEN remuxer.demuxer.audio_pid = last.pre.audio_pid
            ELSE /\ remuxer.demuxer.audio_pid = last.input.entries[i][2]
                 /\ remuxer.demuxer.audio_codec = ClaimedCodec(last.input.entries[i])

\* ------------------------------------------ demuxer, unbounded-length PES

\* the seed PAT and PMT, then PES with length field 0 on the audio PID, each
\* continued without a continuity break until the demuxer ends it
MaxBigSteps == 5702
BigFirstPayloads == {184, 144}

BigSetup ==
    /\ pc = "run"
    /\ steps < 2
    /\ Demux(IF steps = 0 THEN PatInput(<< <<1, 256>> >>, <<0, 0, 0, 0>>)
             ELSE PmtInput(256, << <<3, 257, <<>> >> >>))

BigStart ==
    /\ pc = "run"
    /\ steps >= 2
    /\ steps < MaxBigSteps
    /\ ~AudioBuffer(remuxer).started
    /\ \E n \in BigFirstPayloads : Demux(StartInput(257, 0, 0, n))

BigContinue ==
    /\ pc = "run"
    /\ steps < MaxBigSteps
    /\ AudioBuffer(remuxer).started
    /\ Demux([ContInput(257, AudioBuffer(remuxer).expected_continuity, 184)
                  EXCEPT !.fill = 17])

NextBig ==
    \/ BigSetup
    \/ BigStart
    \/ BigContinue

SpecBig == InitDemux /\ [][NextBig]_vars

\* the last step appended a payload to the started audio buffer
Appended ==
    /\ last.op = "demux"
    /\ last.input.kind = "cont"
    /\ last.input.pid = last.pre.audio_pid
    /\ last.pre.started
    /\ last.input.cc = last.pre.expected_continuity

\* C8: after any packet every reassembly buffer holds at most 1 MiB; a PES
\* with length field 0 is accepted with a declared length of 1 MiB; and a
\* buffer whose accumulated size exceeds 1 MiB is reset and yields nothing.
C8_BufferCapped ==
    /\ \A pid \in DOMAIN remuxer.demuxer.pes_buffers :
          RleLen(remuxer.demuxer.pes_buffers[pid].data) <= MAX_PES_SIZE
    /\ ( /\ last.op = "demux" /\ last.input.kind = "start"
         /\ last.input.pid = last.pre.audio_pid /\ last.input.len_field = 0 ) =>
            /\ last.ret = None
            /\ AudioBuffer(remuxer).started
            /\ AudioBuffer(remuxer).pes_length = MAX_PES_SIZE
            /\ RleLen(AudioBuffer(remuxer).data) = last.input.payload_len
    /\ (Appended /\ last.pre.len + last.input.payload_len > MAX_PES_SIZE) =>
            /\ last.ret = None
            /\ ~AudioBuffer(remuxer).started
            /\ AudioBuffer(remuxer).data = <<>>

\* a PES of length field 0 ran past 1 MiB and the buffer was reset
C8_Witness ==
    /\ Appended
    /\ last.pre.len <= MAX_PES_SIZE
    /\ last.pre.len + last.input.payload_len > MAX_PES_SIZE
    /\ last.ret = None
    /\ ~AudioBuffer(remuxer).started

\* ------------------------------------------------------ fallback discovery

\* a stream without usable tables: packets on the null PID up to the fallback
\* threshold, with PES starts and tables tried at the beginning of the stream
\* and around the threshold
MaxFallbackSteps == 1003
FallbackWindow == 3

NullInput == ContInput(8191, 0, 184)

EarlyInputs ==
    { PatInput(<< <<1, 256>> >>, <<0, 0, 0, 0>>), PmtInput(256, << <<3, 257, <<>> >> >>),
      StartInput(257, 0, 32, 184), NullInput }

\* PES starts by PID and stream_id, a wrong start code, and a PES header in a
\* packet without PUSI
ProbeInputs ==
    { [StartInput(pid, 0, 32, 184) EXCEPT !.stream_id = sid] :
          pid \in {68, 257, 300}, sid \in {189, 190, 192, 223, 224} }
    \cup { [StartInput(257, 0, 32, 184) EXCEPT !.start_code = <<0, 0, 2>>],
           [StartInput(257, 0, 32, 184) EXCEPT !.kind = "nostart"],
           PmtInput(256, << <<3, 257, <<>> >> >>) }

FallbackEarly ==
    /\ pc = "run"
    /\ steps < 2
    /\ \E d \in EarlyInputs : Demux(d)

FallbackFill ==
    /\ pc = "run"
    /\ steps >= 2
    /\ steps < MaxFallbackSteps
    /\ Demux(NullInput)

FallbackProbe ==
    /\ pc = "run"
    /\ steps >= FALLBACK_THRESHOLD - FallbackWindow
    /\ steps < MaxFallbackSteps
    /\ \E d \in ProbeInputs : Demux(d)

NextFallback ==
    \/ FallbackEarly
    \/ FallbackFill
    \/ FallbackProbe

SpecFallback == InitDemux /\ [][NextFallback]_vars

\* C11: fallback discovery is never active before the 1000th processed packet
\* nor once an audio PID is known; a packet that is not a table changes the
\* audio PID only when no audio PID was known, at least 1000 packets have been
\* processed, its PID is one of 68, 128, 256, 257, 258, it has PUSI, and its
\* payload begins 00 00 01 and a stream_id in 0xC0..0xDF or 0xBD; the PID
\* adopted is the packet's and the codec recorded is Unknown.
C11_FallbackDiscovery ==
    [][ /\ remuxer'.demuxer.fallback_active =>
              remuxer'.demuxer.packets_processed >= FALLBACK_THRESHOLD
        /\ ( /\ last'.input.kind \notin {"pat", "pmt"}
             /\ remuxer'.demuxer.audio_pid # remuxer.demuxer.audio_pid ) =>
                /\ remuxer.demuxer.audio_pid = NONE
                /\ remuxer'.demuxer.packets_processed >= FALLBACK_THRESHOLD
                /\ last'.input.kind = "start"
                /\ last'.input.pid \in {68, 128, 256, 257, 258}
                /\ last'.input.start_code = <<0, 0, 1>>
                /\ last'.input.stream_id \in (192..223) \cup {189}
                /\ remuxer'.demuxer.audio_pid = last'.input.pid
                /\ remuxer'.demuxer.audio_codec = "Unknown" ]_vars

\* a PES start on a common PID was adopted by the fallback
C11_Witness ==
    /\ last.op = "demux"
    /\ last.input.kind = "start"
    /\ last.pre.audio_pid = NONE
    /\ remuxer.demuxer.fallback_active
    /\ remuxer.demuxer.audio_pid = last.input.pid
    /\ remuxer.demuxer.audio_codec = "Unknown"
    /\ remuxer.demuxer.packets_processed >= FALLBACK_THRESHOLD

\* ------------------------------------------------------------ end of stream

\* flush called at any point of a stream of whole PES, and more than once
MaxFlushSteps == 6
FlushInputs ==
    { PatInput(<< <<1, 256>> >>, <<0, 0, 0, 0>>), PmtInput(256, << <<3, 257, <<>> >> >>),
      StartInput(257, 5, 32, 184) }
FlushDecoded == {0, 1024, 2048, 2304}

FlushFeed ==
    /\ pc = "run"
    /\ steps < MaxFlushSteps
    /\ \E d \in FlushInputs, decoded \in FlushDecoded, aac_len \in AacLens :
          \E r \in {remux_iteration(remuxer, Bytes(d), decoded, aac_len)} :
              /\ remuxer' = r.h
              /\ pc' = IF r.ret.kind = "panic" THEN "crashed" ELSE "run"
              /\ last' = [ op |-> "process", input |-> d, ret |-> r.ret.kind,
                           packets |-> Returned(r), written |-> r.written,
                           decoded_total |->
                               last.decoded_total + DecodedIn(remuxer, r.h, decoded) ]
              /\ pes_log' = pes_log \o PesStamps(Returned(r))
              /\ cc_seen' = CcAfter(cc_seen, Returned(r))
    /\ steps' = steps + 1

FlushCall ==
    /\ pc = "run"
    /\ steps < MaxFlushSteps
    /\ \E aac_len \in AacLens :
          \E r \in {flush(remuxer, aac_len)} :
              /\ remuxer' = r.h
              /\ last' = [ op |-> "flush", ret |-> r.ret.kind,
                           packets |-> Returned(r), written |-> Returned(r),
                           decoded_total |-> last.decoded_total ]
              /\ pes_log' = pes_log \o PesStamps(Returned(r))
              /\ cc_seen' = CcAfter(cc_seen, Returned(r))
    /\ steps' = steps + 1
    /\ UNCHANGED pc

NextFlush ==
    \/ FlushFeed
    \/ FlushCall

SpecFlush == Init /\ [][NextFlush]_vars

\* C15: flush with r samples left in the encoder's buffer, 0 < r < channels x
\* 1024, encodes exactly one frame, made of those r samples followed by zeros
\* up to channels x 1024 samples, emits it and leaves the buffer empty; with
\* r = 0 nothing is encoded or emitted; a flush right after a flush emits
\* nothing.
C15_FlushPadsOnce ==
    [][ last'.op = "flush" =>
          /\ ( /\ 0 < RleLen(remuxer.encoder.sample_buffer)
               /\ RleLen(remuxer.encoder.sample_buffer) < SamplesPerFrame(remuxer) ) =>
                  /\ remuxer'.encoder.frames_encoded = remuxer.encoder.frames_encoded + 1
                  /\ remuxer'.encoder.sent =
                        RleConcat(remuxer.encoder.sample_buffer,
                                  << <<0, SamplesPerFrame(remuxer)
                                            - RleLen(remuxer.encoder.sample_buffer)>> >>)
                  /\ RleLen(remuxer'.encoder.sent) = SamplesPerFrame(remuxer)
                  /\ remuxer'.encoder.sample_buffer = <<>>
                  /\ Len(PesStamps(last'.packets)) = 1
          /\ remuxer.encoder.sample_buffer = <<>> =>
                  /\ remuxer'.encoder = remuxer.encoder
                  /\ last'.packets = <<>>
          /\ last.op = "flush" => last'.packets = <<>> ]_vars

\* a flush encoded and emitted a frame that ends in zeros
C15_Witness ==
    /\ last.op = "flush"
    /\ last.packets # <<>>
    /\ remuxer.encoder.sample_buffer = <<>>
    /\ RleLen(remuxer.encoder.sent) = SamplesPerFrame(remuxer)
    /\ RleCount(remuxer.encoder.sent, 0) \in 1..(SamplesPerFrame(remuxer) - 1)

\* ------------------------------------------------ the ADTS framer on its own

AdtsTable == {96000, 88200, 64000, 48000, 44100, 32000, 24000, 22050, 16000,
              12000, 11025, 8000, 7350}
AdtsProfiles == {"AacLc", "HeAac", "HeAacV2"}
AdtsRates == AdtsTable \cup {0, 8001, 50000, 99999}
AdtsChannels == 1..9
AdtsPayloadLens == {0, 1, 100, 2041, 2048, 4089, 8183, 8184, 8185, 8192, 65536}

InitAdts ==
    /\ remuxer = AudioRemuxer_new(AudioRemuxConfig_default)
    /\ pc = "run"
    /\ \E profile \in AdtsProfiles, sample_rate \in AdtsRates,
          channels \in AdtsChannels, frame_length \in AdtsPayloadLens :
          last = [ op |-> "input", profile |-> profile, sample_rate |-> sample_rate,
                   channels |-> channels, frame_length |-> frame_length ]
    /\ pes_log = <<>>
    /\ cc_seen = <<>>
    /\ steps = 0

GenerateStep ==
    /\ last.op = "input"
    /\ last' = [ op |-> "generate", input |-> last,
                 ret |-> AdtsHeader_generate(last.profile, last.sample_rate,
                                             last.channels, last.frame_length) ]
    /\ UNCHANGED <<remuxer, pc, pes_log, cc_seen, steps>>

NextAdts == GenerateStep

SpecAdts == InitAdts /\ [][NextAdts]_vars

\* the 13-bit frame_length field of an ADTS header: the low 2 bits of byte 3,
\* byte 4 and the high 3 bits of byte 5
AdtsFrameLength(h) == (At(h, 3) % 4) * 2048 + At(h, 4) * 8 + At(h, 5) \div 32

NewSampleRates == {0, 1000, 7350, 7999, 8000, 44100, 48000, 50000, 96000, 96001, -1}
NewChannels == {0, 1, 2, 8, 9, 65538, -65534}
NewBitrates == {10000, 31999, 32000, 192000, 512000, 512001, -1}

InitNew ==
    /\ remuxer = NullHandle
    /\ pc = "run"
    /\ \E sample_rate \in NewSampleRates, channels \in NewChannels,
          bitrate \in NewBitrates, codec_opens \in BOOLEAN :
          last = [ op |-> "input", sample_rate |-> sample_rate, channels |-> channels,
                   bitrate |-> bitrate, codec_opens |-> codec_opens ]
    /\ pes_log = <<>>
    /\ cc_seen = <<>>
    /\ steps = 0

\* AudioRemuxer::new with a configuration of Rust's types
CreateCall ==
    /\ last.op = "input"
    /\ last.sample_rate = AsU32(last.sample_rate)
    /\ last.channels = AsU16(last.channels)
    /\ last.bitrate = AsU32(last.bitrate)
    /\ \E r \in {AudioRemuxer_try_new([ aac_bitrate |-> last.bitrate,
                                        channels |-> last.channels,
                                        sample_rate |-> last.sample_rate,
                                        aac_profile |-> "AacLc" ], last.codec_opens)} :
          /\ remuxer' = IF r.kind = "ok" THEN r.val ELSE NullHandle
          /\ last' = [op |-> "create", input |-> last, ok |-> r.kind = "ok"]
    /\ UNCHANGED <<pc, pes_log, cc_seen, steps>>

RemuxInitCall ==
    /\ last.op = "input"
    /\ \E h \in {xg2g_audio_remux_init(last.sample_rate, last.channels, last.bitrate,
                                        last.codec_opens, NoError).handle} :
          /\ remuxer' = IF h.null THEN NullHandle ELSE h.remuxer
          /\ last' = [op |-> "remux_init", input |-> last, ok |-> ~h.null]
    /\ UNCHANGED <<pc, pes_log, cc_seen, steps>>

\* the first frame encoded on a new handle
FirstFrameCall ==
    /\ last.op \in {"create", "remux_init"}
    /\ last.ok
    /\ \E aac_len \in AacLens :
          \E e \in {encode(remuxer.encoder,
                           << <<1, SamplesPerFrame(remuxer)>> >>, aac_len)} :
              /\ remuxer' = [remuxer EXCEPT !.encoder = e.enc]
              /\ last' = [ op |-> "encode", input |-> last.input, ok |-> TRUE,
                           ret |-> IF e.ret.kind = "err" THEN e.ret ELSE Ok(Len(e.ret.val)) ]
    /\ UNCHANGED <<pc, pes_log, cc_seen, steps>>

NextNew ==
    \/ CreateCall
    \/ RemuxInitCall
    \/ FirstFrameCall

SpecNew == InitNew /\ [][NextNew]_vars

\* C17: construction (create / remux_init) succeeds only if sample_rate is in
\* 8000..96000, channels in 1..8 and bitrate in 32000..512000; for any value
\* outside these ranges construction fails and no handle is returned.
C17_ConstructionValidates ==
    (last.op \in {"create", "remux_init"} /\ last.ok) =>
        /\ last.input.sample_rate \in 8000..96000
        /\ last.input.channels \in 1..8
        /\ last.input.bitrate \in 32000..512000

\* C18: construction fails for every sample_rate that is not in the ADTS
\* sampling-frequency table, also inside 8000..96000, so that ADTS header
\* generation is never reached with a rate it cannot encode.
C18_UnknownRateRejected ==
    /\ (last.op \in {"create", "remux_init"} /\ last.input.sample_rate \notin AdtsTable) =>
            ~last.ok
    /\ last.op = "encode" => last.ret # Err("Unsupported sample rate for ADTS")

\* ---------------------------------------------------- the C entry points

\* calls of xg2g_audio_remux_init until one returns a handle, then calls of
\* xg2g_audio_remux_process, xg2g_last_error and xg2g_audio_remux_free on one
\* thread.  In last, error is what LAST_ERROR holds after the call.
MaxFfiSteps == 4
FfiInputs ==
    { <<PatInput(<< <<1, 256>> >>, <<0, 0, 0, 0>>)>>,
      <<PmtInput(256, << <<3, 257, <<>> >> >>)>>,
      <<StartInput(257, 5, 32, 184)>>,
      <<BadSyncInput>>,
      <<PointerInput(0, 255)>>,
      <<PatInput(<< <<1, 256>> >>, <<0, 0, 0, 0>>), PmtInput(256, << <<3, 257, <<>> >> >>)>>,
      <<StartInput(257, 5, 32, 184), StartInput(257, 5, 32, 184)>>,
      <<BadSyncInput, StartInput(257, 5, 32, 184)>> }

\* the arguments of a call: the packets of the input and the bytes after the
\* last whole packet, the capacity of the output buffer, the null argument
FfiCall(ds, tail, capacity, null) ==
    [ds |-> ds, tail |-> tail, capacity |-> capacity, null |-> null]
FfiCalls ==
    { FfiCall(ds, 0, 4096, "none") : ds \in FfiInputs }
    \cup { FfiCall(<<StartInput(257, 5, 32, 184)>>, 0, 376, "none"),
           FfiCall(<<StartInput(257, 5, 32, 184), StartInput(257, 5, 32, 184)>>,
                   0, 376, "none"),
           FfiCall(<<StartInput(257, 5, 32, 184)>>, 100, 4096, "none"),
           FfiCall(<<>>, 187, 4096, "none") }
    \cup { FfiCall(<<StartInput(257, 5, 32, 184)>>, 0, 4096, null) :
               null \in {"handle", "input", "output"} }

InputOf(c) ==
    [ null |-> c.null = "input",
      bytes |-> Flatten([i \in 1..Len(c.ds) |-> Bytes(c.ds[i])]) \o Fill(c.tail, 0) ]
OutputOf(c) == [null |-> c.null = "output", capacity |-> c.capacity]
HandleOf(c, r) == IF c.null = "handle" THEN NullHandle ELSE [null |-> FALSE, remuxer |-> r]

InitFfi ==
    /\ remuxer = NullHandle
    /\ pc = "new"
    /\ last = [ op |-> "none", error |-> NoError, submitted |-> 0, returned |-> 0,
                panics |-> 0 ]
    /\ pes_log = <<>>
    /\ cc_seen = <<>>
    /\ steps = 0

FfiInitCall ==
    /\ pc = "new"
    /\ steps < MaxFfiSteps
    /\ \E sample_rate \in {0, 48000}, codec_opens \in BOOLEAN :
          \E r \in {xg2g_audio_remux_init(sample_rate, 2, 192000, codec_opens,
                                          last.error)} :
              /\ remuxer' = IF r.handle.null THEN NullHandle ELSE r.handle.remuxer
              /\ pc' = IF r.handle.null THEN "new" ELSE "run"
              /\ last' = [ op |-> "remux_init", null |-> r.handle.null,
                           error |-> r.error, submitted |-> 0, returned |-> 0,
                           panics |-> 0 ]
    /\ steps' = steps + 1
    /\ UNCHANGED <<pes_log, cc_seen>>

\* last keeps the call, the handle's state before it and its result, how many packets were submitted and
\* how many were returned so far, and how many calls ended in a caught panic
FfiProcessCall ==
    /\ pc = "run"
    /\ steps < MaxFfiSteps
    /\ \E c \in FfiCalls, decoded \in {DecodeFails, 2304}, aac_len \in AacLens :
          \E r \in {xg2g_audio_remux_process(HandleOf(c, remuxer), InputOf(c),
                                             OutputOf(c), decoded, aac_len)} :
              /\ remuxer' = IF c.null = "handle" THEN remuxer ELSE r.handle.remuxer
              /\ last' = [ op |-> IF c.null = "none" THEN "remux_process" ELSE "null",
                           call |-> c, decoded |-> decoded, aac_len |-> aac_len,
                           before |-> remuxer,
                           ret |-> r.ret, packets |-> r.out,
                           error |-> r.error,
                           submitted |-> last.submitted
                                           + (IF c.null = "none" THEN Len(c.ds) ELSE 0),
                           returned |-> last.returned
                                           + (IF r.ret >= 0 THEN Len(r.out) ELSE 0),
                           panics |-> last.panics
                                           + (IF r.error = caught_panic(0, 0, 0).error
                                              THEN 1 ELSE 0) ]
              /\ pes_log' = pes_log \o PesStamps(r.out)
              /\ cc_seen' = CcAfter(cc_seen, r.out)
    /\ steps' = steps + 1
    /\ UNCHANGED pc

\* xg2g_last_error right after the call that last describes
FfiLastErrorCall ==
    /\ last.op \in {"remux_init", "remux_process", "null"}
    /\ steps < MaxFfiSteps
    /\ \E r \in {xg2g_last_error(last.error)} :
          last' = [ op |-> "last_error", after |-> last, ret |-> r.ret,
                    error |-> r.error, submitted |-> last.submitted,
                    returned |-> last.returned, panics |-> last.panics ]
    /\ steps' = steps + 1
    /\ UNCHANGED <<remuxer, pc, pes_log, cc_seen>>

\* xg2g_audio_remux_free with the handle or with NULL
FfiFreeCall ==
    /\ pc = "run"
    /\ steps < MaxFfiSteps
    /\ \E handle \in {NullHandle, [null |-> FALSE, remuxer |-> remuxer]} :
          /\ pc' = IF xg2g_audio_remux_free(handle) THEN "freed" ELSE pc
          /\ last' = [ op |-> "remux_free", null |-> handle.null, error |-> last.error,
                       submitted |-> last.submitted, returned |-> last.returned,
                       panics |-> last.panics ]
    /\ steps' = steps + 1
    /\ UNCHANGED <<remuxer, pes_log, cc_seen>>

NextFfi == FfiInitCall \/ FfiProcessCall \/ FfiLastErrorCall \/ FfiFreeCall

SpecFfi == InitFfi /\ [][NextFfi]_vars

\* C20: stats() reflects the work done: after k TS packets were submitted
\* through remux_process, packets_processed = k and bytes_input = 188 x k, and
\* packets_output is the number of TS packets returned so far.
C20_StatsReflectWork ==
    last.op = "remux_process" =>
        /\ remuxer.stats.packets_processed = last.submitted
        /\ remuxer.stats.bytes_input = TS_PACKET_SIZE * last.submitted
        /\ remuxer.stats.packets_output = last.returned

\* C21: remux_process with a null handle, a null input or a null output
\* returns -1 and changes the state of no handle; remux_free with null does
\* nothing.
C21_NullArgumentsRejected ==
    [][ /\ last'.op = "null" =>
              /\ last'.ret = -1
              /\ last'.packets = <<>>
              /\ UNCHANGED <<remuxer, pc, pes_log, cc_seen>>
        /\ (last'.op = "remux_free" /\ last'.null) =>
              UNCHANGED <<remuxer, pc, pes_log, cc_seen>> ]_vars

C21_Witness ==
    /\ last.op = "null"
    /\ last.call.null = "output"
    /\ remuxer.stats.packets_output > 0

\* the pipeline run over the first n whole packets of bytes, in input order:
\* the handle afterwards, the packets emitted in emission order, and whether
\* a packet made it panic
RECURSIVE RunPackets(_, _, _, _, _)
RunPackets(h, bytes, n, decoded, aac_len) ==
    IF n = 0 THEN [h |-> h, out |-> <<>>, panic |-> FALSE]
    ELSE Bind([p \in {RunPackets(h, bytes, n - 1, decoded, aac_len)} |->
         Bind([r \in {process_ts_packet(p.h, Slice(bytes, (n - 1) * TS_PACKET_SIZE,
                                                   n * TS_PACKET_SIZE),
                                        decoded, aac_len)} |->
             [ h |-> r.h,
               out |-> p.out \o (IF r.ret.kind = "ok" THEN r.ret.val ELSE <<>>),
               panic |-> p.panic \/ r.ret.kind = "panic" ]])])

RECURSIVE OverflowAt(_, _, _, _, _, _, _)
OverflowAt(h, bytes, n, count, capacity, decoded, aac_len) ==
    IF n > count THEN 0
    ELSE Bind([run \in {RunPackets(h, bytes, n, decoded, aac_len)} |->
        IF run.panic THEN 0
        ELSE IF TS_PACKET_SIZE * Len(run.out) > capacity THEN n
        ELSE OverflowAt(h, bytes, n + 1, count, capacity, decoded, aac_len)])

C24_FailureHasErrorString ==
    ( /\ last.op = "last_error"
      /\ \/ last.after.op \in {"remux_process", "null"} /\ last.after.ret < 0
         \/ last.after.op = "remux_init" /\ last.after.null )
    => last.ret # NoError

MaxTwoSteps == 5
TwoConfigs == << <<48000, 2, 192000>>, <<44100, 2, 128000>> >>
TwoCalls ==
    { FfiCall(<< PatInput(<< <<1, 256>> >>, <<0, 0, 0, 0>>),
                 PmtInput(256, << <<3, 257, <<>> >> >>),
                 StartInput(257, 5, 32, 184) >>, 0, 4096, "none"),
      FfiCall(<<StartInput(257, 5, 32, 184)>>, 0, 4096, "none"),
      FfiCall(<<StartInput(257, 5, 32, 184), StartInput(257, 5, 32, 184)>>,
              0, 376, "none") }

\* every handle reaching the box of the first
handle_state_shared(handles, i) == handles[1]

\* ffi.rs 149: a handle is the address of its own RemuxerHandle box
handle_state(handles, i) == handles[i]

TwoInit(i) ==
    xg2g_audio_remux_init(TwoConfigs[i][1], TwoConfigs[i][2], TwoConfigs[i][3],
                          TRUE, NoError).handle

InitTwo ==
    /\ remuxer = [handles |-> <<NullHandle, NullHandle>>, CALL_COUNT |-> 0]
    /\ pc = <<"new", "new">>
    /\ last = [ op |-> "none", history |-> << <<>>, <<>> >>,
                results |-> << <<>>, <<>> >> ]
    /\ pes_log = <<>>
    /\ cc_seen = <<>>
    /\ steps = 0

TwoInitCall ==
    /\ steps < MaxTwoSteps
    /\ \E i \in 1..2 :
          /\ pc[i] = "new"
          /\ remuxer' = [remuxer EXCEPT !.handles[i] = TwoInit(i)]
          /\ pc' = [pc EXCEPT ![i] = "run"]
          /\ last' = [last EXCEPT !.op = "remux_init"]
    /\ steps' = steps + 1
    /\ UNCHANGED <<pes_log, cc_seen>>

TwoProcessCall ==
    /\ steps < MaxTwoSteps
    /\ \E i \in 1..2, c \in TwoCalls, aac_len \in AacLens :
          /\ pc[i] = "run"
          /\ \E r \in {xg2g_audio_remux_process(handle_state(remuxer.handles, i),
                                                InputOf(c), OutputOf(c), 2304, aac_len)} :
                /\ remuxer' = [ handles |-> [remuxer.handles EXCEPT ![i] = r.handle],
                                CALL_COUNT |-> remuxer.CALL_COUNT + r.calls ]
                /\ last' = [ op |-> "remux_process",
                             history |-> [last.history EXCEPT ![i] =
                                 Append(@, [call |-> c, decoded |-> 2304,
                                            aac_len |-> aac_len])],
                             results |-> [last.results EXCEPT ![i] =
                                 Append(@, [ret |-> r.ret, out |-> r.out])] ]
    /\ steps' = steps + 1
    /\ UNCHANGED <<pc, pes_log, cc_seen>>

TwoFreeCall ==
    /\ steps < MaxTwoSteps
    /\ \E i \in 1..2 :
          /\ pc[i] = "run"
          /\ xg2g_audio_remux_free(remuxer.handles[i])
          /\ pc' = [pc EXCEPT ![i] = "freed"]
          /\ last' = [last EXCEPT !.op = "remux_free"]
    /\ steps' = steps + 1
    /\ UNCHANGED <<remuxer, pes_log, cc_seen>>

NextTwo == TwoInitCall \/ TwoProcessCall \/ TwoFreeCall

SpecTwo == InitTwo /\ [][NextTwo]_vars

\* a handle run alone on the first k calls of history: the handle afterwards
\* and what the calls returned
RECURSIVE SoloRun(_, _, _)
SoloRun(handle, history, k) ==
    IF k = 0 THEN [handle |-> handle, results |-> <<>>]
    ELSE Bind([p \in {SoloRun(handle, history, k - 1)} |->
         Bind([r \in {xg2g_audio_remux_process(p.handle, InputOf(history[k].call),
                                               OutputOf(history[k].call),
                                               history[k].decoded,
                                               history[k].aac_len)} |->
             [ handle |-> r.handle,
               results |-> Append(p.results, [ret |-> r.ret, out |-> r.out]) ]])])

PesDataLens == 0..110 \cup {249, 250, 500, 65521, 65522, 65523, 65529}

InitPesLen ==
    /\ remuxer = AudioRemuxer_new(AudioRemuxConfig_default)
    /\ pc = "run"
    /\ \E n \in PesDataLens : last = [op |-> "input", data_len |-> n]
    /\ pes_log = <<>>
    /\ cc_seen = <<>>
    /\ steps = 0

\* last keeps the first nine bytes of the PES, its PES_packet_length field
\* and its size
CreatePesCall ==
    /\ last.op = "input"
    /\ \E pes \in {create_pes_packet(Fill(last.data_len, 170), 1920, 1920)} :
          last' = [ op |-> "create_pes_packet", data_len |-> last.data_len,
                    head |-> Slice(pes, 0, 9),
                    pes_length |-> At(pes, 4) * 256 + At(pes, 5),
                    size |-> Len(pes) ]
    /\ steps' = steps + 1
    /\ UNCHANGED <<remuxer, pc, pes_log, cc_seen>>

NextPesLen == CreatePesCall

SpecPesLen == InitPesLen /\ [][NextPesLen]_vars

\* C27: the PES_packet_length field written by the multiplexer equals the
\* number of bytes that follow the field in the emitted PES (its size - 6,
\* which is 3 + 10 + the AAC data length), whenever that number is <= 65535.
C27_PesLengthCountsFollowingBytes ==
    (last.op = "create_pes_packet" /\ last.size - 6 <= 65535) =>
        /\ last.size - 6 = 3 + 10 + last.data_len
        /\ last.pes_length = last.size - 6

\* ------------------------------------------------ the PMT that is emitted

\* the offset of the last byte of a PSI packet that is not 0xFF stuffing
RECURSIVE LastWritten(_, _)
LastWritten(p, i) == IF i = 0 \/ At(p, i) # 255 THEN i ELSE LastWritten(p, i - 1)

\* the section_length field of a PSI packet with pointer_field 0
SectionLengthOf(p) == Low(At(p, 6), 4) * 256 + At(p, 7)

\* C28: the PMT packet declares both elementary streams inside its section:
\* section_length equals the number of bytes that follow the field up to and
\* including the CRC (9 header bytes + two 5-byte stream entries + 4 CRC
\* bytes), so a parser that stops at section_length sees the video entry
\* (0x1B, video PID), the audio entry (0x0F, audio PID) and the PCR PID.
C28_PmtSectionCoversStreams ==
    last.op = "generate_pmt" =>
        LET p == last.packets[1]
            c == remuxer.muxer.config
            streams_end == 8 + SectionLengthOf(p) - 4
        IN  /\ SectionLengthOf(p) = 9 + 2 * 5 + 4
            /\ SectionLengthOf(p) = LastWritten(p, TS_PACKET_SIZE - 1) - 7
            /\ Low(At(p, 13), 5) * 256 + At(p, 14) = c.pcr_pid
            /\ At(p, 17) = 27
            /\ Low(At(p, 18), 5) * 256 + At(p, 19) = c.video_pid
            /\ 17 + 5 <= streams_end
            /\ At(p, 22) = 15
            /\ Low(At(p, 23), 5) * 256 + At(p, 24) = c.audio_pid
            /\ 22 + 5 <= streams_end

\* ------------------------------------------------ the start of a PES

\* C29: on an audio-PID packet with PUSI = 1, the PES buffer starts a new PES
\* only if the payload begins with 00 00 01 and the stream_id that follows is
\* in 0xC0..0xDF or is 0xBD; in every other case the buffer is left reset
\* (empty, not started), nothing is yielded, and a recoverable error is
\* reported.
C29_PesStartChecksHeader ==
    ( /\ last.op = "demux"
      /\ last.input.kind = "start"
      /\ last.input.pid = last.pre.audio_pid
      /\ ~ ( /\ last.input.start_code = <<0, 0, 1>>
             /\ last.input.stream_id \in (192..223) \cup {189} ) )
    => /\ ~AudioBuffer(remuxer).started
       /\ RleLen(AudioBuffer(remuxer).data) = 0
       /\ last.ret.kind = "err"

\* --------------------------------------------- AAC streams in the PMT

\* C30: PMT parsing treats an elementary stream of stream_type 0x0F (AAC) as
\* non-audio: it is not adopted as the audio PID, so a PMT that lists a 0x0F
\* stream before an MP2 or AC-3 stream has the MP2 or AC-3 stream adopted.
C30_AacStreamNotAdopted ==
    ( /\ last.op = "demux" /\ last.input.kind = "pmt"
      /\ last.input.table_id = 2 /\ last.input.pid = last.pre.pmt_pid
      /\ \E i \in DOMAIN last.input.entries : last.input.entries[i][1] = 15 ) =>
        /\ remuxer.demuxer.audio_codec # "Aac"
        /\ \A i \in DOMAIN last.input.entries :
               last.input.entries[i][1] = 15 =>
                   remuxer.demuxer.audio_pid # last.input.entries[i][2]
        /\ \A j \in DOMAIN last.input.entries :
               ( /\ last.input.entries[j][1] \in {3, 4, 129}
                 /\ \A i \in 1..(j - 1) : last.input.entries[i][1] = 15 ) =>
                   /\ remuxer.demuxer.audio_pid = last.input.entries[j][2]
                   /\ remuxer.demuxer.audio_codec \in {"Mp2", "Ac3"}

\* ------------------------------------ the pipeline on a fallback stream

\* a stream without tables through process_ts_packet: packets on the null PID
\* up to the fallback threshold, then whole and partial PES on a common PID
MaxTablelessSteps == 1004
TablelessInputs ==
    { StartInput(257, 5, 32, 184), StartInput(257, 5, 300, 184),
      ContInput(257, 6, 184), NullInput }

InitTableless ==
    /\ remuxer = AudioRemuxer_new(AudioRemuxConfig_default)
    /\ pc = "run"
    /\ last = [op |-> "none"]
    /\ pes_log = <<>>
    /\ cc_seen = <<>>
    /\ steps = 0

TablelessCall(d, decoded, aac_len) ==
    \E r \in {process_ts_packet(remuxer, Bytes(d), decoded, aac_len)} :
        /\ remuxer' = r.h
        /\ last' = [ op |-> "process_ts_packet", input |-> d, ret |-> r.ret.kind,
                     packets |-> IF r.ret.kind = "ok" THEN r.ret.val ELSE <<>> ]
        /\ pes_log' = pes_log \o PesStamps(IF r.ret.kind = "ok" THEN r.ret.val ELSE <<>>)
        /\ steps' = steps + 1
        /\ UNCHANGED <<pc, cc_seen>>

TablelessFill ==
    /\ steps < FALLBACK_THRESHOLD
    /\ \E aac_len \in AacLens : TablelessCall(NullInput, 2304, aac_len)

TablelessFeed ==
    /\ steps >= FALLBACK_THRESHOLD
    /\ steps < MaxTablelessSteps
    /\ \E d \in TablelessInputs, decoded \in {DecodeFails, 2304}, aac_len \in AacLens :
          TablelessCall(d, decoded, aac_len)

NextTableless == TablelessFill \/ TablelessFeed

SpecTableless == InitTableless /\ [][NextTableless]_vars

\* C31: after the audio PID was adopted by fallback discovery (codec
\* Unknown), a completed PES on that PID is handed to a decoder: the pipeline
\* does not stay without a decoder because the codec is Unknown.
C31_FallbackPesReachesDecoder ==
    ( /\ remuxer.demuxer.fallback_active
      /\ remuxer.demuxer.audio_pid # NONE
      /\ remuxer.demuxer.audio_codec = "Unknown"
      /\ remuxer.stats.audio_packets > 0 )
    => /\ remuxer.decoder # "None"
       /\ last.ret # "err" \/ remuxer.initialized

\* ------------------------------------------- create_ts_packets on its own

\* PES of 1 to MaxPesLen bytes, none of them 0xFF, fragmented at any value of
\* the audio continuity counter
MaxPesLen == 400
PesBytes(n) == [i \in 1..n |-> (7 * i) % 200]

InitFragment ==
    /\ \E cc \in {0, 15} :
          remuxer = [AudioRemuxer_new(AudioRemuxConfig_default)
                         EXCEPT !.muxer.audio_continuity = cc]
    /\ pc = "run"
    /\ \E n \in 1..MaxPesLen : last = [op |-> "input", n |-> n]
    /\ pes_log = <<>>
    /\ cc_seen = <<>>
    /\ steps = 0

CreateTsPacketsCall ==
    /\ last.op = "input"
    /\ \E r \in {create_ts_packets(remuxer.muxer, PesBytes(last.n),
                                   remuxer.muxer.config.audio_pid, TRUE)} :
          /\ remuxer' = [remuxer EXCEPT !.muxer = r.mux]
          /\ last' = [op |-> "create_ts_packets", n |-> last.n, packets |-> r.packets]
    /\ steps' = steps + 1
    /\ UNCHANGED <<pc, pes_log, cc_seen>>

NextFragment == CreateTsPacketsCall

SpecFragment == InitFragment /\ [][NextFragment]_vars

\* C32: for a PES of n > 0 bytes the multiplexer emits exactly ceil(n / 184)
\* TS packets on the audio PID, each 188 bytes long with sync byte 0x47 and
\* adaptation_field_control 01; only the first has PUSI = 1; the 184-byte
\* payloads concatenated in emission order are the PES bytes followed only
\* by 0xFF bytes in the last packet.
C32_PesFragmentation ==
    last.op = "create_ts_packets" =>
        LET ps == last.packets
            count == (last.n + 183) \div 184
        IN  /\ Len(ps) = count
            /\ \A i \in 1..Len(ps) :
                   /\ Len(ps[i]) = TS_PACKET_SIZE
                   /\ At(ps[i], 0) = 71
                   /\ PidOf(ps[i]) = remuxer.muxer.config.audio_pid
                   /\ Low(Shr(At(ps[i], 3), 4), 2) = 1
                   /\ PusiOf(ps[i]) <=> i = 1
            /\ Flatten([i \in 1..Len(ps) |-> SliceFrom(ps[i], 4)])
                   = PesBytes(last.n) \o Fill(184 * count - last.n, 255)

\* a PES one byte longer than a payload: two packets, the second all padding
\* but one byte
C32_Witness ==
    /\ last.op = "create_ts_packets"
    /\ last.n = 185
    /\ Len(last.packets) = 2

\* ------------------------------------------- write_timestamp on its own

\* timestamps below 2^33 as hi * 2^30 + lo: every value of the bits 32..30,
\* and low parts around the edges of the two 15-bit groups and of the bytes
StampLows ==
    { 0, 1, 2, 127, 128, 255, 256, Pow2(14), Pow2(15) - 1, Pow2(15), Pow2(15) + 1,
      Pow2(22) - 1, Pow2(22), Pow2(29) - 1, Pow2(29), Pow2(30) - 1,
      715827882, 357913941, 90000, 1920 }

InitStamp ==
    /\ remuxer = AudioRemuxer_new(AudioRemuxConfig_default)
    /\ pc = "run"
    /\ \E prefix \in {3, 1}, hi \in 0..7, lo \in StampLows :
          last = [op |-> "input", prefix |-> prefix, hi |-> hi, lo |-> lo]
    /\ pes_log = <<>>
    /\ cc_seen = <<>>
    /\ steps = 0

WriteTimestampCall ==
    /\ last.op = "input"
    /\ last' = [ op |-> "write_timestamp", prefix |-> last.prefix, hi |-> last.hi,
                 lo |-> last.lo,
                 bytes |-> write_timestamp_wide(last.prefix, last.hi, last.lo) ]
    /\ steps' = steps + 1
    /\ UNCHANGED <<remuxer, pc, pes_log, cc_seen>>

NextStamp == WriteTimestampCall

SpecStamp == InitStamp /\ [][NextStamp]_vars

\* C33: for every timestamp ts with 0 <= ts < 2^33, the 5 bytes written for a
\* PTS (prefix 3) or a DTS (prefix 1) carry the prefix in the top nibble of
\* byte 0, have all three marker bits set, and decode back to ts from the bit
\* groups ts[32:30], ts[29:15], ts[14:0].
C33_TimestampRoundTrip ==
    last.op = "write_timestamp" =>
        LET b == last.bytes
        IN  /\ Len(b) = 5
            /\ \A i \in 1..5 : b[i] \in 0..255
            /\ Shr(b[1], 4) = last.prefix
            /\ b[1] % 2 = 1 /\ b[3] % 2 = 1 /\ b[5] % 2 = 1
            /\ Low(Shr(b[1], 1), 3) = last.hi
            /\ b[2] * 128 + Shr(b[3], 1) = Shr(last.lo, 15)
            /\ b[4] * 128 + Shr(b[5], 1) = Low(last.lo, 15)

\* a DTS with bit 32 set and both 15-bit groups mixed
C33_Witness ==
    /\ last.op = "write_timestamp"
    /\ last.prefix = 1
    /\ last.hi = 5
    /\ last.lo = 715827882

\* ------------------------------------- the channel field of the ADTS header

\* the 3-bit channel_configuration of an ADTS header (low bit of byte 2, top
\* two bits of byte 3) and the private bit next to it
AdtsChannelConfiguration(h) == (At(h, 2) % 2) * 4 + At(h, 3) \div 64
AdtsPrivateBit(h) == Bit(At(h, 2), 1)

\* C34: for every channel count that construction-time validation accepts
\* (1..8), the channel_configuration field of the ADTS header equals the
\* channel count and the private bit stays 0.
C34_AdtsChannelField ==
    ( /\ last.op = "generate"
      /\ last.ret.kind = "ok"
      /\ validate([ sample_rate |-> 48000, channels |-> last.input.channels,
                    bitrate |-> 192000, profile |-> last.input.profile ]) )
    => /\ AdtsChannelConfiguration(last.ret.val) = last.input.channels
       /\ AdtsPrivateBit(last.ret.val) = 0

\* ------------------------------------------------------ scrambled packets

\* C35: a packet whose scrambling control is non-zero changes nothing but the
\* processed-packet count: pmt_pid, audio_pid, codec, fallback state and all
\* PES buffers are unchanged, no PES is yielded and no error is reported, even
\* when its PID is 0x0000, the PMT PID or the audio PID.
C35_ScrambledSkipped ==
    [][ last'.input.kind = "scrambled" =>
            /\ remuxer'.demuxer =
                   [remuxer.demuxer EXCEPT !.packets_processed = @ + 1]
            /\ last'.ret = None ]_vars

\* a scrambled PES start on the audio PID while a PES is being collected
C35_Witness ==
    /\ last.op = "demux"
    /\ last.input.kind = "scrambled"
    /\ last.input.of.kind = "start"
    /\ last.input.of.pid = last.pre.audio_pid
    /\ last.pre.started
    /\ AudioBuffer(remuxer).started

\* ---------------------------------------------------- discovery is monotone

\* C36: discovery only moves forward: once pmt_pid is known it never becomes
\* unknown again, once audio_pid is known it never becomes unknown again, and
\* heuristic fallback never replaces an audio PID that is already known.
C36_DiscoveryMovesForward ==
    [][ /\ remuxer.demuxer.pmt_pid # NONE => remuxer'.demuxer.pmt_pid # NONE
        /\ remuxer.demuxer.audio_pid # NONE => remuxer'.demuxer.audio_pid # NONE
        /\ ( /\ remuxer.demuxer.audio_pid # NONE
             /\ last'.input.kind \notin {"pat", "pmt"} ) =>
                /\ remuxer'.demuxer.audio_pid = remuxer.demuxer.audio_pid
                /\ remuxer'.demuxer.audio_codec = remuxer.demuxer.audio_codec ]_vars

\* past the threshold, with the audio PID known from the PMT, an audio PES start
\* arrived on another common PID
C36_Witness ==
    /\ last.op = "demux"
    /\ last.input.kind = "start"
    /\ last.input.pid = 68
    /\ last.input.stream_id = 192
    /\ last.pre.audio_pid = 257
    /\ remuxer.demuxer.pmt_pid = 256
    /\ remuxer.demuxer.audio_pid = 257
    /\ remuxer.demuxer.packets_processed >= FALLBACK_THRESHOLD

\* ------------------------------------------------ totality of the demuxer

\* C37: process_packet is total on size-correct input: for every 188-byte
\* packet with sync byte 0x47, including PAT or PMT packets whose pointer_field
\* exceeds the remaining payload or whose section_length or ES_info_length
\* exceed the bytes present in the packet, it returns Ok or Err and never
\* performs an out-of-bounds access (panic).
C37_ProcessPacketTotal ==
    ( /\ last.op = "demux"
      /\ Len(Bytes(last.input)) = TS_PACKET_SIZE
      /\ At(Bytes(last.input), 0) = TS_SYNC_BYTE ) =>
        /\ last.ret.kind \in {"none", "some", "err"}
        /\ pc = "run"

\* ------------------------------------------------- retrying a failed call

\* what one call on the state h with the input of call c and an output buffer
\* of 4096 bytes writes
SingleCall(h, c, decoded, aac_len) == xg2g_audio_remux_process([null |-> FALSE, remuxer |-> h], InputOf(c), [null |-> FALSE, capacity |-> 4096], decoded, aac_len)

\* C38: every TS packet the pipeline emits is delivered to the caller exactly
\* once: if remux_process returns -2 (output buffer too small) or -1 (caught
\* panic) part-way through a batch, calling it again with the same input and a
\* sufficiently large buffer yields the same output bytes that a single call
\* with a large enough buffer would have produced.
C38_RetryYieldsSameOutput ==
    [][ ( /\ last.op = "remux_process"
          /\ last.ret \in {-2, -1}
          /\ last'.op = "remux_process"
          /\ InputOf(last'.call) = InputOf(last.call)
          /\ last'.call.capacity = 4096
          /\ last'.decoded = last.decoded
          /\ last'.aac_len = last.aac_len ) =>
            \E single \in {SingleCall(last.before, last.call, last.decoded, last.aac_len)} :
                /\ last'.ret = single.ret
                /\ last'.packets = single.out ]_vars

\* ----------------------------------------------------- the PSI round trip

\* C39: PSI round trip: feeding the multiplexer's own PAT packet and then its
\* own PMT packet to a fresh demuxer sets pmt_pid to the multiplexer's
\* configured PMT PID (0x1000) and then discovers the audio elementary stream
\* at the configured audio PID (0x0101) with codec AAC.
C39_PsiRoundTrip ==
    ( /\ last.op = "mux_audio"
      /\ StartsWithPsi(remuxer.muxer, last.packets) ) =>
        \E pat \in {process_packet(TsDemuxer_new, last.packets[1])} :
            \E pmt \in {process_packet(pat.dem, last.packets[2])} :
                /\ pat.ret = None
                /\ pat.dem.pmt_pid = remuxer.muxer.config.pmt_pid
                /\ pat.dem.pmt_pid = 4096
                /\ pmt.ret = None
                /\ pmt.dem.audio_pid = remuxer.muxer.config.audio_pid
                /\ pmt.dem.audio_pid = 257
                /\ pmt.dem.audio_codec = "Aac"

\* ------------------------------------------- C ints at the FFI boundary

\* C40: remux_init returns null for every C int value of channels outside
\* [1, 8], of sample_rate outside [8000, 96000] and of bitrate outside
\* [32000, 512000], including negative values and values of 65536 or more:
\* converting the C ints to the configuration's unsigned 16-bit and 32-bit
\* fields never turns an out-of-range argument into an accepted one.
C40_InitRejectsOutOfRangeInts ==
    ( /\ last.op = "remux_init"
      /\ \/ last.input.channels < 1 \/ last.input.channels > 8
         \/ last.input.sample_rate < 8000 \/ last.input.sample_rate > 96000
         \/ last.input.bitrate < 32000 \/ last.input.bitrate > 512000 ) =>
        /\ ~last.ok
        /\ remuxer = NullHandle

====
